---- MODULE Spec2Model ----
(***************************************************************************)
(* Model of BuildTrackDeviceManager                                        *)
(* (custom_components/buildtrack/buildtrack_device_manager.py): the state  *)
(* table mac_id_wise_state, the two connected flags, the pending           *)
(* subscription set, the routing list, and one action per public method    *)
(* and per transport callback.  Every action is one whole handler run.     *)
(*                                                                         *)
(* Observation variables: call is the handler invocation that has just run *)
(* (Idle between handlers), ws_sent / mqtt_sent / http_sent are the calls  *)
(* it made on websocket_connection.send, on the paho client and on the     *)
(* fast path, raised is the exception that left it ("" when it returned),  *)
(* ret its return value.  HandlerDone clears them before the next handler. *)
(***************************************************************************)
EXTENDS Integers, Sequences, FiniteSets, TLC

\* ------------------------------------------------------------------ bounds

\* Longest pin list of a status event, and so the highest channel number.
MaxPins == 2

\* ------------------------------------------------------------- input sets

Endpoints == {"E1", "E2"}

\* Endpoints the discovery layer may flag as broker-routed.
BrokerCapable == {"E2"}

\* f"{index + 1}" / f"{pin_number}": decimal rendering of a channel number.
StrOfInt(n) ==
    <<"1", "2", "3", "4", "5", "6", "7", "8", "9">>[n]

\* Channels of each board: E1 has MaxPins of them, E2 is a one-channel device.
PinCount(uid) == IF uid = "E1" THEN MaxPins ELSE 1

\* The channel numbers callers use for an endpoint.
PinNumbers(uid) == {StrOfInt(i) : i \in 1..PinCount(uid)}

CoverActions == {"open", "close", "stop"}

\* ------------------------------------------------------- python values

\* A JSON scalar is an int or a str; int(x) accepts both.
PyNone == [t |-> "none"]
PyI(n) == [t |-> "int", i |-> n]
PyS(s) == [t |-> "str", s |-> s]
PyD(state, speed) == [t |-> "dict", state |-> state, speed |-> speed]

\* int(x) for the scalars of the model.
PyInt(x) ==
    IF x.t = "int" THEN x.i
    ELSE CASE x.s = "0" -> 0
           [] x.s = "1" -> 1
           [] x.s = "40" -> 40

\* str(x) for the integers a command carries as its speed.
PyStr(x) ==
    CASE x.i = 0 -> "0"
      [] x.i = 60 -> "60"

\* Speeds a caller passes to switch_on (None: no speed given).
CommandSpeeds == {PyNone, PyI(60)}

\* Elements of a status event's pin list: bare scalars (legacy) and objects;
\* E2's firmware also reports scalars as strings.
PinItems(uid) ==
    {PyI(0), PyD(PyI(1), PyI(40))} \cup (IF uid = "E2" THEN {PyS("1")} ELSE {})

RECURSIVE SeqsUpTo(_, _)
SeqsUpTo(S, n) ==
    IF n = 0 THEN {<<>>}
    ELSE LET shorter == SeqsUpTo(S, n - 1)
         IN  shorter \cup {Append(s, x) : s \in {q \in shorter : Len(q) = n - 1}, x \in S}

PinLists(uid) == SeqsUpTo(PinItems(uid), PinCount(uid)) \ {<<>>}

\* Decoded bodies {command, uid, pin}: status reports, and one body of
\* another command.
StatusBodies ==
    UNION {[command : {"status"}, uid : {uid}, pin : PinLists(uid)] : uid \in Endpoints}
    \cup {[command |-> "connectivityStatus", uid |-> "E1", pin |-> <<PyS("1")>>]}

\* Frames the stream delivers: "40" session open, "3" pong, "42[name, body]".
WsFrames ==
    {[head |-> "40"], [head |-> "3"]}
    \cup [head : {"42"}, name : {"status"}, body : StatusBodies]
    \cup {[head |-> "42", name |-> "connectivityStatus",
           body |-> [command |-> "status", uid |-> "E1", pin |-> <<PyS("1")>>]]}

\* ----------------------------------------------------------- dict helpers

EmptyDict == [k \in {} |-> k]

Put(d, k, v) == [x \in DOMAIN d \cup {k} |-> IF x = k THEN v ELSE d[x]]

\* All orders in which a set can be iterated.
RECURSIVE Orders(_)
Orders(S) ==
    IF S = {} THEN {<<>>}
    ELSE UNION {{<<x>> \o o : o \in Orders(S \ {x})} : x \in S}

\* ------------------------------------------------------------------ state

VARIABLES
    mac_id_wise_state,          \* dict mac -> dict pin -> {"state"[, "speed"]}
    is_websocket_connected,
    is_mqtt_connected,
    pending_listening_devices,
    device_mqtt_mac_ids,        \* set by the discovery layer
    ws_sock,                    \* WebSocketApp.sock: "connecting", "open", "lost"
    mqtt_sock,                  \* paho client's socket: "connecting", "up"
    call, ws_sent, mqtt_sent, http_sent, raised, ret,
    listened                    \* history: endpoints listen_to_tcp_device_status
                                \* was called for (kept by SpecSub only)

vars == <<mac_id_wise_state, is_websocket_connected, is_mqtt_connected,
          pending_listening_devices, device_mqtt_mac_ids, ws_sock, mqtt_sock,
          call, ws_sent, mqtt_sent, http_sent, raised, ret, listened>>

\* The variables a handler that only computes leaves alone.
conn_vars == <<is_websocket_connected, is_mqtt_connected, ws_sock, mqtt_sock>>

\* ---------------------------------------------------------------- frames

\* websocket_connection.send arguments.
Login == [frame |-> "login"]
JoinGroup(mac_id) == [frame |-> "joinGroup", mac |-> mac_id]
ConnectivityStatus(mac_id) == [frame |-> "connectivityStatus", mac |-> mac_id]
EventPush(payload) == [frame |-> "event_push", payload |-> payload]

\* The deviceStatus query both transports send for an endpoint.
DeviceStatusQuery(mac_id) ==
    [macID |-> mac_id, event |-> "execute", command |-> "deviceStatus",
     params |-> 0, passcode |-> mac_id, to |-> mac_id]

\* The three sends of listen_to_tcp_device_status, in the code's order.
Handshake(mac_id) ==
    <<JoinGroup(mac_id), ConnectivityStatus(mac_id), EventPush(DeviceStatusQuery(mac_id))>>

\* paho client calls.
MqttSubscribe(mac_id) == [api |-> "subscribe", topic |-> <<mac_id, "/status">>]
MqttPublish(topic, payload) == [api |-> "publish", topic |-> topic, payload |-> payload]
WillMsg == MqttPublish(<<"WillMsg">>, "Connection Closed abnormally..!")

\* ------------------------------------------------------------ pure methods

\* _build_command: the command JSON, params is a one-element list.
_build_command(mac_id, pin_number, state, speed) ==
    [macID |-> mac_id, event |-> "execute", command |-> "execute",
     params |-> <<[pin |-> pin_number, state |-> state,
                   speed |-> IF speed # PyNone THEN PyStr(speed) ELSE "0"]>>,
     passcode |-> mac_id, to |-> mac_id]

\* A fetch_device_state whose default has no speed; C2 must tell it apart.
fetch_device_state_NoDefaultSpeed(st, mac_id, pin_number) ==
    IF mac_id \notin DOMAIN st \/ pin_number \notin DOMAIN st[mac_id]
    THEN [state |-> 0]
    ELSE st[mac_id][pin_number]

\* fetch_device_state on a table st.
fetch_device_state(st, mac_id, pin_number) ==
    IF mac_id \notin DOMAIN st \/ pin_number \notin DOMAIN st[mac_id]
    THEN [state |-> 0, speed |-> 0]
    ELSE st[mac_id][pin_number]

\* is_device_on on a table st.
is_device_on(st, mac_id, pin_number) ==
    ~ (\/ mac_id \notin DOMAIN st
       \/ pin_number \notin DOMAIN st[mac_id]
       \/ st[mac_id][pin_number].state = 0)

\* One element of decoded_message["pin"] as update_switch_state stores it.
PinEntry(item) ==
    IF item.t = "dict"
    THEN [state |-> PyInt(item.state), speed |-> PyInt(item.speed)]
    ELSE [state |-> PyInt(item)]

\* The enumerate loop of update_switch_state over pin[i..].
RECURSIVE StorePins(_, _, _)
StorePins(chans, pin, i) ==
    IF i > Len(pin) THEN chans
    ELSE StorePins(Put(chans, StrOfInt(i), PinEntry(pin[i])), pin, i + 1)

\* An update_switch_state that replaces the endpoint's channel map by the
\* reported pins; C33 must tell it apart.
update_switch_state_ReplacesMap(st, decoded_message) ==
    IF decoded_message.command = "status"
    THEN Put(st, decoded_message.uid, StorePins(EmptyDict, decoded_message.pin, 1))
    ELSE st

\* An update_switch_state that keeps the entry a pin already has; C19 must
\* tell it apart.
update_switch_state_FirstWins(st, decoded_message) ==
    IF decoded_message.command = "status"
    THEN LET uid == decoded_message.uid
             st1 == IF uid \notin DOMAIN st THEN Put(st, uid, EmptyDict) ELSE st
             RECURSIVE keep(_, _)
             keep(chans, i) ==
                 IF i > Len(decoded_message.pin) THEN chans
                 ELSE keep(IF StrOfInt(i) \in DOMAIN chans THEN chans
                           ELSE Put(chans, StrOfInt(i), PinEntry(decoded_message.pin[i])),
                           i + 1)
         IN  Put(st1, uid, keep(st1[uid], 1))
    ELSE st

\* update_switch_state: the one merge path of both transports.
update_switch_state(st, decoded_message) ==
    IF decoded_message.command = "status"
    THEN LET uid == decoded_message.uid
             st1 == IF uid \notin DOMAIN st THEN Put(st, uid, EmptyDict) ELSE st
         IN  Put(st1, uid, StorePins(st1[uid], decoded_message.pin, 1))
    ELSE st

\* A manual_device_state_update that writes a fresh entry {state, speed 0}
\* instead of the one field; C34 must tell it apart.
manual_device_state_update_FreshEntry(st, mac_id, pin_number, state) ==
    IF mac_id \in DOMAIN st
    THEN IF pin_number \in DOMAIN st[mac_id]
         THEN [st |-> Put(st, mac_id,
                          Put(st[mac_id], pin_number,
                              [state |-> IF state THEN 1 ELSE 0, speed |-> 0])),
               raised |-> ""]
         ELSE [st |-> st, raised |-> "KeyError"]
    ELSE [st |-> st, raised |-> ""]

\* manual_device_state_update: [st, raised]; a missing pin key is a KeyError.
manual_device_state_update(st, mac_id, pin_number, state) ==
    IF mac_id \in DOMAIN st
    THEN IF pin_number \in DOMAIN st[mac_id]
         THEN [st |-> Put(st, mac_id,
                          Put(st[mac_id], pin_number,
                              Put(st[mac_id][pin_number], "state",
                                  IF state THEN 1 ELSE 0))),
               raised |-> ""]
         ELSE [st |-> st, raised |-> "KeyError"]
    ELSE [st |-> st, raised |-> ""]

\* A _send_command that also pushes broker-routed commands on the stream; C7
\* must tell it apart.
_send_command_BothTransports(mac_id, command_json) ==
    [ws |-> <<EventPush(command_json)>>,
     mqtt |-> IF \E i \in DOMAIN device_mqtt_mac_ids : device_mqtt_mac_ids[i] = mac_id
              THEN <<MqttPublish(<<mac_id, "/execute">>, command_json)>>
              ELSE <<>>,
     raised |-> IF ws_sock = "open" THEN ""
                ELSE "WebSocketConnectionClosedException"]

\* _send_command: [ws, mqtt, raised].  WebSocketApp.send raises when it has no
\* open socket; paho's publish returns an error code instead.
_send_command(mac_id, command_json) ==
    IF \E i \in DOMAIN device_mqtt_mac_ids : device_mqtt_mac_ids[i] = mac_id
    THEN [ws |-> <<>>,
          mqtt |-> <<MqttPublish(<<mac_id, "/execute">>, command_json)>>,
          raised |-> ""]
    ELSE [ws |-> <<EventPush(command_json)>>,
          mqtt |-> <<>>,
          raised |-> IF ws_sock = "open" THEN ""
                     ELSE "WebSocketConnectionClosedException"]

\* A listen_to_tcp_device_status whose except branch only logs; C35 must tell
\* it apart.
listen_to_tcp_device_status_OnlyLogs(m, mac_id) ==
    IF ~m.connected
    THEN [m EXCEPT !.pend = @ \cup {mac_id}]
    ELSE LET m1 == [m EXCEPT !.st = Put(@, mac_id, EmptyDict)]
         IN  IF m.sock = "open"
             THEN [m1 EXCEPT !.ws = @ \o Handshake(mac_id)]
             ELSE [m1 EXCEPT !.ws = Append(@, JoinGroup(mac_id))]

\* A listen_to_tcp_device_status that creates the entry only for an endpoint
\* that has none (the check the code has commented out); C32 must tell it
\* apart.
listen_to_tcp_device_status_KeepsEntry(m, mac_id) ==
    IF ~m.connected
    THEN [m EXCEPT !.pend = @ \cup {mac_id}]
    ELSE LET m1 == [m EXCEPT !.st = IF mac_id \in DOMAIN @ THEN @
                                    ELSE Put(@, mac_id, EmptyDict)]
         IN  IF m.sock = "open"
             THEN [m1 EXCEPT !.ws = @ \o Handshake(mac_id)]
             ELSE [m1 EXCEPT !.ws = Append(@, JoinGroup(mac_id)),
                             !.pend = @ \cup {mac_id}]

\* A listen_to_tcp_device_status that asks for the device status before it
\* joins the group; C23 must tell it apart.
listen_to_tcp_device_status_QueryFirst(m, mac_id) ==
    IF ~m.connected
    THEN [m EXCEPT !.pend = @ \cup {mac_id}]
    ELSE LET m1 == [m EXCEPT !.st = Put(@, mac_id, EmptyDict)]
         IN  IF m.sock = "open"
             THEN [m1 EXCEPT !.ws = @ \o <<EventPush(DeviceStatusQuery(mac_id)),
                                          JoinGroup(mac_id),
                                          ConnectivityStatus(mac_id)>>]
             ELSE [m1 EXCEPT !.ws = Append(@, EventPush(DeviceStatusQuery(mac_id))),
                             !.pend = @ \cup {mac_id}]

\* A listen_to_tcp_device_status that gives the endpoint a default entry for
\* channel "1"; C21 must tell it apart.
listen_to_tcp_device_status_DefaultPin(m, mac_id) ==
    IF ~m.connected
    THEN [m EXCEPT !.pend = @ \cup {mac_id}]
    ELSE LET m1 == [m EXCEPT !.st = Put(@, mac_id, Put(EmptyDict, "1", [state |-> 0]))]
         IN  IF m.sock = "open"
             THEN [m1 EXCEPT !.ws = @ \o Handshake(mac_id)]
             ELSE [m1 EXCEPT !.ws = Append(@, JoinGroup(mac_id)),
                             !.pend = @ \cup {mac_id}]

\* listen_to_tcp_device_status on the manager view
\* m = [st, pend, connected, sock, ws] (ws: the sends made so far).
\* websocket_connection is never None after __init__.  The first send on a
\* socket that is not open raises, and the except branch re-queues mac_id.
listen_to_tcp_device_status(m, mac_id) ==
    IF ~m.connected
    THEN [m EXCEPT !.pend = @ \cup {mac_id}]
    ELSE LET m1 == [m EXCEPT !.st = Put(@, mac_id, EmptyDict)]
         IN  IF m.sock = "open"
             THEN [m1 EXCEPT !.ws = @ \o Handshake(mac_id)]
             ELSE [m1 EXCEPT !.ws = Append(@, JoinGroup(mac_id)),
                             !.pend = @ \cup {mac_id}]

\* for device_mac in order: listen_to_tcp_device_status(device_mac)
RECURSIVE ListenEach(_, _)
ListenEach(m, order) ==
    IF order = <<>> THEN m
    ELSE ListenEach(listen_to_tcp_device_status(m, Head(order)), Tail(order))

\* A register_all_tcp_devices_listeners that leaves the known endpoints out;
\* C24 must tell it apart.
register_all_tcp_devices_listeners_Skip(m, order) == m

\* register_all_tcp_devices_listeners; order: the table's iteration order.
register_all_tcp_devices_listeners(m, order) ==
    ListenEach(m, order)

\* A register_pending_tcp_devices_listeners that forgets to clear the set; C4
\* must tell it apart.
register_pending_tcp_devices_listeners_NoClear(m, order) ==
    ListenEach(m, order)

\* register_pending_tcp_devices_listeners: copy, clear, re-listen each copy;
\* order: the iteration order of the copied set.
register_pending_tcp_devices_listeners(m, order) ==
    ListenEach([m EXCEPT !.pend = {}], order)

\* An on_open that sends a command again on the new connection; C22 must tell
\* it apart.
on_open_ResendsCommand(m, order) ==
    register_all_tcp_devices_listeners(
        [m EXCEPT !.ws = @ \o <<Login, EventPush(_build_command("E1", "1", "on", PyNone))>>],
        order)

\* on_open: the login frame, then register_all_tcp_devices_listeners.
on_open(m, order) ==
    register_all_tcp_devices_listeners([m EXCEPT !.ws = Append(@, Login)], order)

\* An on_close that reconnects without clearing the flag; C27 must tell it
\* apart.
on_close_KeepsFlag(m) ==
    [m EXCEPT !.sock = "connecting"]

\* on_close: clear the flag, then connect_to_buildtrack_tcp_server replaces
\* websocket_connection by a new WebSocketApp that is not connected yet.
on_close(m) ==
    [m EXCEPT !.connected = FALSE, !.sock = "connecting"]

\* An on_message that merges the body of any "42" frame, whatever its event
\* name; C31 must tell it apart.
on_message_AnyEvent(m, message, order) ==
    LET m1 == IF message.head = "40"
              THEN register_pending_tcp_devices_listeners(
                       [m EXCEPT !.connected = TRUE], order)
              ELSE m
    IN  IF message.head = "42"
        THEN [m1 EXCEPT !.st = update_switch_state(@, message.body)]
        ELSE m1

\* on_message of the stream.
on_message(m, message, order) ==
    LET m1 == IF message.head = "40"
              THEN register_pending_tcp_devices_listeners(
                       [m EXCEPT !.connected = TRUE], order)
              ELSE m
    IN  IF message.head = "42" /\ message.name = "status"
        THEN [m1 EXCEPT !.st = update_switch_state(@, message.body)]
        ELSE m1

\* A broker on_message that merges only bodies of broker-routed endpoints; C9
\* must tell it apart.
mqtt_on_message_RoutedOnly(st, decoded_message) ==
    IF \E i \in DOMAIN device_mqtt_mac_ids :
           device_mqtt_mac_ids[i] = decoded_message.uid
    THEN update_switch_state(st, decoded_message)
    ELSE st

\* on_message of the broker client: json.loads, then the merge path.
mqtt_on_message(st, decoded_message) ==
    update_switch_state(st, decoded_message)

\* An on_connect that does not look at the result code; C28 must tell it
\* apart.
on_connect_IgnoresRc(b, rc) ==
    LET each(mac_id) ==
            <<MqttSubscribe(mac_id),
              MqttPublish(<<mac_id, "/execute">>, DeviceStatusQuery(mac_id))>>
        RECURSIVE all(_)
        all(i) == IF i > Len(device_mqtt_mac_ids) THEN <<>>
                  ELSE each(device_mqtt_mac_ids[i]) \o all(i + 1)
    IN  [connected |-> TRUE, sock |-> "up", sent |-> <<WillMsg>> \o all(1)]

\* The broker's on_connect on b = [connected, sock, sent].
on_connect(b, rc) ==
    IF rc # 0 THEN b
    ELSE LET each(mac_id) ==
                 <<MqttSubscribe(mac_id),
                   MqttPublish(<<mac_id, "/execute">>, DeviceStatusQuery(mac_id))>>
             RECURSIVE all(_)
             all(i) == IF i > Len(device_mqtt_mac_ids) THEN <<>>
                       ELSE each(device_mqtt_mac_ids[i]) \o all(i + 1)
         IN  [connected |-> TRUE, sock |-> "up", sent |-> <<WillMsg>> \o all(1)]

\* An on_disconnect that leaves the flag as it is; C36 must tell it apart.
on_disconnect_KeepsFlag(b) ==
    [b EXCEPT !.sock = "connecting"]

\* The broker's on_disconnect; paho's loop_forever then reconnects.
on_disconnect(b) ==
    [b EXCEPT !.connected = FALSE, !.sock = "connecting"]

\* A mqtt_subscribe_to_device_state that does not look at the flag; C29 must
\* tell it apart.
mqtt_subscribe_to_device_state_Always(connected, mac_id) ==
    <<MqttSubscribe(mac_id),
      MqttPublish(<<mac_id, "/execute">>, DeviceStatusQuery(mac_id))>>

\* mqtt_subscribe_to_device_state: the paho calls it makes.
mqtt_subscribe_to_device_state(connected, mac_id) ==
    IF connected
    THEN <<MqttSubscribe(mac_id),
           MqttPublish(<<mac_id, "/execute">>, DeviceStatusQuery(mac_id))>>
    ELSE <<>>

\* call_local_http_api: the POSTs it schedules as tasks.  node_local_ip is
\* None when there is no api_reference, no device for mac_id, or no address.
call_local_http_api(mac_id, pin_number, state, speed, node_local_ip) ==
    IF node_local_ip = PyNone THEN <<>>
    ELSE <<[url |-> <<"http://", node_local_ip.s, "/execute">>,
            payload |-> [command |-> "execute",
                         params |-> <<IF speed # PyNone
                                      THEN [pin |-> pin_number, state |-> state,
                                            speed |-> PyStr(speed)]
                                      ELSE [pin |-> pin_number, state |-> state]>>,
                         passcode |-> mac_id]]>>

\* ---------------------------------------------------------------- actions

Idle == [op |-> "idle"]

\* The stream side of the manager as a handler sees it; ws collects its sends.
View ==
    [st |-> mac_id_wise_state, pend |-> pending_listening_devices,
     connected |-> is_websocket_connected, sock |-> ws_sock, ws |-> <<>>]

Commit(m) ==
    /\ mac_id_wise_state' = m.st
    /\ pending_listening_devices' = m.pend
    /\ is_websocket_connected' = m.connected
    /\ ws_sock' = m.sock
    /\ ws_sent' = m.ws

\* The broker side; sent collects the paho calls.
BrokerView ==
    [connected |-> is_mqtt_connected, sock |-> mqtt_sock, sent |-> <<>>]

BrokerCommit(b) ==
    /\ is_mqtt_connected' = b.connected
    /\ mqtt_sock' = b.sock
    /\ mqtt_sent' = b.sent

Init ==
    /\ mac_id_wise_state = EmptyDict
    /\ is_websocket_connected = FALSE
    /\ is_mqtt_connected = FALSE
    /\ pending_listening_devices = {}
    /\ device_mqtt_mac_ids = <<>>
    /\ ws_sock = "connecting"
    /\ mqtt_sock = "connecting"
    /\ call = Idle
    /\ ws_sent = <<>>
    /\ mqtt_sent = <<>>
    /\ http_sent = <<>>
    /\ raised = ""
    /\ ret = PyNone
    /\ listened = {}

\* ---- foreground: the public methods

ListenBody(mac_id) ==
    /\ call = Idle
    /\ Commit(listen_to_tcp_device_status(View, mac_id))
    /\ call' = [op |-> "listen_to_tcp_device_status", mac_id |-> mac_id]
    /\ mqtt_sent' = <<>>
    /\ http_sent' = <<>>
    /\ raised' = ""
    /\ ret' = PyNone
    /\ UNCHANGED <<is_mqtt_connected, device_mqtt_mac_ids, mqtt_sock>>

ListenToTcpDeviceStatus(mac_id) ==
    ListenBody(mac_id) /\ UNCHANGED listened

\* The same call, recorded in the history variable.
ListenToTcpDeviceStatusRecorded(mac_id) ==
    ListenBody(mac_id) /\ listened' = listened \cup {mac_id}

MqttSubscribeToDeviceState(mac_id) ==
    /\ call = Idle
    /\ mqtt_sent' = mqtt_subscribe_to_device_state(is_mqtt_connected, mac_id)
    /\ call' = [op |-> "mqtt_subscribe_to_device_state", mac_id |-> mac_id]
    /\ ws_sent' = <<>>
    /\ http_sent' = <<>>
    /\ raised' = ""
    /\ ret' = PyNone
    /\ UNCHANGED <<mac_id_wise_state, pending_listening_devices,
                   device_mqtt_mac_ids, conn_vars, listened>>

\* The steps switch_on, switch_off and set_cover_state share after building
\* the command: fast path, _send_command, manual_device_state_update; an
\* exception ends the method where it is raised.
CommandSteps(mac_id, pin_number, command_json, http, state) ==
    LET sent == _send_command(mac_id, command_json)
        upd  == IF sent.raised = ""
                THEN manual_device_state_update(mac_id_wise_state, mac_id,
                                                pin_number, state)
                ELSE [st |-> mac_id_wise_state, raised |-> sent.raised]
    IN  /\ call = Idle
        /\ http_sent' = http
        /\ ws_sent' = sent.ws
        /\ mqtt_sent' = sent.mqtt
        /\ mac_id_wise_state' = upd.st
        /\ raised' = upd.raised
        /\ ret' = PyNone
        /\ UNCHANGED <<pending_listening_devices, device_mqtt_mac_ids, conn_vars,
                       listened>>

SwitchOn(mac_id, pin_number, speed, node_local_ip) ==
    /\ CommandSteps(mac_id, pin_number,
                    _build_command(mac_id, pin_number, "on", speed),
                    call_local_http_api(mac_id, pin_number, "on", speed,
                                        node_local_ip),
                    TRUE)
    /\ call' = [op |-> "switch_on", mac_id |-> mac_id,
                pin_number |-> pin_number, speed |-> speed]

SwitchOff(mac_id, pin_number, speed, node_local_ip) ==
    /\ CommandSteps(mac_id, pin_number,
                    _build_command(mac_id, pin_number, "off", speed),
                    call_local_http_api(mac_id, pin_number, "off", speed,
                                        node_local_ip),
                    FALSE)
    /\ call' = [op |-> "switch_off", mac_id |-> mac_id,
                pin_number |-> pin_number, speed |-> speed]

\* A set_cover_state that records an opened cover as on; C11 must tell it
\* apart.
SetCoverState_OpenIsOn(mac_id, pin_number, state, node_local_ip) ==
    /\ CommandSteps(mac_id, pin_number,
                    _build_command(mac_id, pin_number, state, PyI(0)),
                    call_local_http_api(mac_id, pin_number, state, PyI(0),
                                        node_local_ip),
                    state = "open")
    /\ call' = [op |-> "set_cover_state", mac_id |-> mac_id,
                pin_number |-> pin_number, state |-> state]

SetCoverState(mac_id, pin_number, state, node_local_ip) ==
    /\ CommandSteps(mac_id, pin_number,
                    _build_command(mac_id, pin_number, state, PyI(0)),
                    call_local_http_api(mac_id, pin_number, state, PyI(0),
                                        node_local_ip),
                    FALSE)
    /\ call' = [op |-> "set_cover_state", mac_id |-> mac_id,
                pin_number |-> pin_number, state |-> state]

\* A read: nothing but the observation changes.
\* A read that stores the default it returns for an endpoint without an
\* entry; C20 must tell it apart.
ReadStep_CreatesEntry(op, value) ==
    /\ call = Idle
    /\ ret' = value
    /\ call' = op
    /\ ws_sent' = <<>>
    /\ mqtt_sent' = <<>>
    /\ http_sent' = <<>>
    /\ raised' = ""
    /\ mac_id_wise_state' =
           IF op.mac_id \in DOMAIN mac_id_wise_state THEN mac_id_wise_state
           ELSE Put(mac_id_wise_state, op.mac_id, EmptyDict)
    /\ UNCHANGED <<pending_listening_devices, device_mqtt_mac_ids, conn_vars,
                   listened>>

ReadStep(op, value) ==
    /\ call = Idle
    /\ ret' = value
    /\ call' = op
    /\ ws_sent' = <<>>
    /\ mqtt_sent' = <<>>
    /\ http_sent' = <<>>
    /\ raised' = ""
    /\ UNCHANGED <<mac_id_wise_state, pending_listening_devices,
                   device_mqtt_mac_ids, conn_vars, listened>>

FetchDeviceState(mac_id, pin_number) ==
    ReadStep([op |-> "fetch_device_state", mac_id |-> mac_id,
              pin_number |-> pin_number],
             fetch_device_state(mac_id_wise_state, mac_id, pin_number))

IsDeviceOn(mac_id, pin_number) ==
    ReadStep([op |-> "is_device_on", mac_id |-> mac_id,
              pin_number |-> pin_number],
             is_device_on(mac_id_wise_state, mac_id, pin_number))

\* The discovery layer flags an endpoint as broker-routed.
RegisterMqttDevice(mac_id) ==
    /\ call = Idle
    /\ \A i \in DOMAIN device_mqtt_mac_ids : device_mqtt_mac_ids[i] # mac_id
    /\ device_mqtt_mac_ids' = Append(device_mqtt_mac_ids, mac_id)
    /\ call' = [op |-> "register_mqtt_device", mac_id |-> mac_id]
    /\ ws_sent' = <<>>
    /\ mqtt_sent' = <<>>
    /\ http_sent' = <<>>
    /\ raised' = ""
    /\ ret' = PyNone
    /\ UNCHANGED <<mac_id_wise_state, pending_listening_devices, conn_vars,
                   listened>>

\* ---- the stream thread (WebSocketApp.run_forever and its callbacks)

StreamStep(m, op) ==
    /\ call = Idle
    /\ Commit(m)
    /\ call' = op
    /\ mqtt_sent' = <<>>
    /\ http_sent' = <<>>
    /\ raised' = ""
    /\ ret' = PyNone
    /\ UNCHANGED <<is_mqtt_connected, device_mqtt_mac_ids, mqtt_sock, listened>>

\* The connection attempt succeeds: the socket is open and on_open runs.
OnOpen ==
    /\ ws_sock = "connecting"
    /\ \E order \in Orders(DOMAIN mac_id_wise_state) :
           StreamStep(on_open([View EXCEPT !.sock = "open"], order),
                      [op |-> "on_open"])

\* The open socket is lost (network drop, ping timeout, server close); sends
\* raise from now on, on_close has not run yet.
WsLost ==
    /\ ws_sock = "open"
    /\ StreamStep([View EXCEPT !.sock = "lost"], [op |-> "ws_lost"])

\* run_forever ends, after a failed attempt or a lost socket: on_close runs.
OnClose ==
    /\ ws_sock \in {"connecting", "lost"}
    /\ StreamStep(on_close(View), [op |-> "on_close", was |-> ws_sock])

\* A frame arrives on the open socket.
OnMessage(message) ==
    /\ ws_sock = "open"
    /\ \E order \in (IF message.head = "40"
                     THEN Orders(pending_listening_devices) ELSE {<<>>}) :
           StreamStep(on_message(View, message, order),
                      [op |-> "on_message", message |-> message])

\* ---- the broker thread (paho loop_forever and its callbacks)

BrokerStep(b, op) ==
    /\ call = Idle
    /\ BrokerCommit(b)
    /\ call' = op
    /\ ws_sent' = <<>>
    /\ http_sent' = <<>>
    /\ raised' = ""
    /\ ret' = PyNone
    /\ UNCHANGED <<pending_listening_devices, device_mqtt_mac_ids,
                   is_websocket_connected, ws_sock, listened>>

\* CONNACK: result code 0 (accepted) or 5 (refused).
OnConnect(rc) ==
    /\ mqtt_sock = "connecting"
    /\ BrokerStep(on_connect(BrokerView, rc), [op |-> "on_connect", rc |-> rc])
    /\ UNCHANGED mac_id_wise_state

OnDisconnect ==
    /\ mqtt_sock = "up"
    /\ BrokerStep(on_disconnect(BrokerView), [op |-> "on_disconnect"])
    /\ UNCHANGED mac_id_wise_state

\* A publish arrives on a subscribed topic.
MqttOnMessage(decoded_message) ==
    /\ mqtt_sock = "up"
    /\ BrokerStep(BrokerView, [op |-> "mqtt_on_message",
                               decoded_message |-> decoded_message])
    /\ mac_id_wise_state' = mqtt_on_message(mac_id_wise_state, decoded_message)

\* The handler has returned to its caller or thread loop; the next one starts
\* from a clean observation.
HandlerDone ==
    /\ call # Idle
    /\ call' = Idle
    /\ ws_sent' = <<>>
    /\ mqtt_sent' = <<>>
    /\ http_sent' = <<>>
    /\ raised' = ""
    /\ ret' = PyNone
    /\ UNCHANGED <<mac_id_wise_state, pending_listening_devices,
                   device_mqtt_mac_ids, conn_vars, listened>>

\* ------------------------------------------------------------ specification

\* What get_node_local_ip_for_device resolves: only E2 advertises an address.
LocalIps(mac_id) ==
    IF mac_id = "E2" THEN {PyNone, PyS("10.0.0.7")} ELSE {PyNone}

\* Every handler but listen_to_tcp_device_status.
OtherHandlers ==
    \/ \E mac_id \in Endpoints : MqttSubscribeToDeviceState(mac_id)
    \/ \E mac_id \in Endpoints, speed \in CommandSpeeds :
           \E pin_number \in PinNumbers(mac_id), ip \in LocalIps(mac_id) :
               SwitchOn(mac_id, pin_number, speed, ip)
    \/ \E mac_id \in Endpoints :
           \E pin_number \in PinNumbers(mac_id), ip \in LocalIps(mac_id) :
               SwitchOff(mac_id, pin_number, PyNone, ip)
    \/ \E mac_id \in Endpoints, state \in CoverActions :
           \E pin_number \in PinNumbers(mac_id), ip \in LocalIps(mac_id) :
               SetCoverState(mac_id, pin_number, state, ip)
    \/ \E mac_id \in Endpoints : \E pin_number \in PinNumbers(mac_id) :
           FetchDeviceState(mac_id, pin_number)
    \/ \E mac_id \in Endpoints : \E pin_number \in PinNumbers(mac_id) :
           IsDeviceOn(mac_id, pin_number)
    \/ \E mac_id \in BrokerCapable : RegisterMqttDevice(mac_id)
    \/ OnOpen
    \/ WsLost
    \/ OnClose
    \/ \E message \in WsFrames : OnMessage(message)
    \/ \E rc \in {0, 5} : OnConnect(rc)
    \/ OnDisconnect
    \/ \E decoded_message \in StatusBodies : MqttOnMessage(decoded_message)
    \/ HandlerDone

Next ==
    \/ \E mac_id \in Endpoints : ListenToTcpDeviceStatus(mac_id)
    \/ OtherHandlers

Spec == Init /\ [][Next]_vars

\* The same program, also recording for which endpoints
\* listen_to_tcp_device_status has been called.
NextSub ==
    \/ \E mac_id \in Endpoints : ListenToTcpDeviceStatusRecorded(mac_id)
    \/ OtherHandlers

SpecSub == Init /\ [][NextSub]_vars

\* ------------------------------------------------------------------ claims

Commands == {"switch_on", "switch_off", "set_cover_state"}

\* E is in the broker-routed list.
BrokerRouted(mac_id) ==
    \E i \in DOMAIN device_mqtt_mac_ids : device_mqtt_mac_ids[i] = mac_id

\* The (endpoint, channel) pair has an entry in the state table.
HasEntry(st, mac_id, pin_number) ==
    mac_id \in DOMAIN st /\ pin_number \in DOMAIN st[mac_id]

\* The status body the handler of this step passed to update_switch_state,
\* if it did.
MergedBody(c) ==
    IF c.op = "mqtt_on_message" THEN c.decoded_message ELSE c.message.body

Merged(c) ==
    \/ c.op = "mqtt_on_message" /\ c.decoded_message.command = "status"
    \/ /\ c.op = "on_message"
       /\ c.message.head = "42"
       /\ c.message.name = "status"
       /\ c.message.body.command = "status"

\* The ChannelState a pin element stands for: an object gives power and
\* speed, a bare integer gives its power and speed 0.
Decoded(item) ==
    IF item.t = "dict"
    THEN [state |-> PyInt(item.state), speed |-> PyInt(item.speed)]
    ELSE [state |-> PyInt(item), speed |-> 0]

\* The endpoint a stream frame is about.
FrameMac(f) ==
    IF f.frame = "event_push" THEN f.payload.macID
    ELSE IF f.frame = "login" THEN "" ELSE f.mac

FramesFor(frames, mac_id) ==
    SelectSeq(frames, LAMBDA f : FrameMac(f) = mac_id)

\* fan.py percentage: get_device_state(id)["speed"]; a missing key raises.
percentage(st, mac_id, pin_number) ==
    LET d == fetch_device_state(st, mac_id, pin_number)
    IN  IF "speed" \in DOMAIN d
        THEN [value |-> d.speed, raised |-> ""]
        ELSE [value |-> 0, raised |-> "KeyError"]

\* C1 (as claimed): once switch_on(E, ch) has returned, is_device_on(E, ch)
\* is true, whatever the connectivity of the routed transport.
C1_OptimisticWrite ==
    (call.op = "switch_on" /\ raised = "")
        => is_device_on(mac_id_wise_state, call.mac_id, call.pin_number)

\* C2: a pair without an entry in the state table reads as {state 0, speed 0}
\* and as not on, in every reachable state, and the read does not raise.
C2_DefaultState ==
    /\ \A mac_id \in Endpoints : \A pin_number \in PinNumbers(mac_id) :
           ~HasEntry(mac_id_wise_state, mac_id, pin_number)
               => /\ fetch_device_state(mac_id_wise_state, mac_id, pin_number)
                         = [state |-> 0, speed |-> 0]
                  /\ ~is_device_on(mac_id_wise_state, mac_id, pin_number)
    /\ (/\ call.op \in {"fetch_device_state", "is_device_on"}
        /\ ~HasEntry(mac_id_wise_state, call.mac_id, call.pin_number))
           => /\ raised = ""
              /\ IF call.op = "fetch_device_state"
                 THEN ret = [state |-> 0, speed |-> 0]
                 ELSE ret = FALSE

\* C2 witness: fetch_device_state has just read a missing channel of an
\* endpoint whose other channel is known and on.
C2_Witness ==
    /\ call.op = "fetch_device_state"
    /\ call.mac_id = "E1"
    /\ call.pin_number = "2"
    /\ HasEntry(mac_id_wise_state, "E1", "1")
    /\ ~HasEntry(mac_id_wise_state, "E1", "2")
    /\ mac_id_wise_state["E1"]["1"].state = 1
    /\ ret = [state |-> 0, speed |-> 0]

\* C3 (as claimed): after a status event for E with pins p1..pn has been
\* merged, get(E, i) is the decoding of pi for every i: {state s, speed v}
\* gives {s, v}, a bare 0 gives {off, 0}.
C3_Merge ==
    Merged(call)
        => \A i \in 1..Len(MergedBody(call).pin) :
               fetch_device_state(mac_id_wise_state, MergedBody(call).uid, StrOfInt(i))
                   = Decoded(MergedBody(call).pin[i])

\* C4: on a new connection on_open sends the login frame only, and the "40"
\* frame sends exactly one three-frame handshake for every endpoint that was
\* pending (subscribed while not connected, or re-queued by on_open) and
\* leaves the pending set empty.
C4_PendingReplay ==
    [][/\ call'.op = "on_open" => ws_sent' = <<Login>>
       /\ (call'.op = "on_message" /\ call'.message.head = "40")
          => /\ \A mac_id \in pending_listening_devices :
                    FramesFor(ws_sent', mac_id) = Handshake(mac_id)
             /\ \A mac_id \in Endpoints \ pending_listening_devices :
                    FramesFor(ws_sent', mac_id) = <<>>
             /\ pending_listening_devices' = {}]_vars

\* C4 witness: the "40" frame has replayed the subscription of E1, which no
\* status event has reported yet, and nothing is pending.
C4_Witness ==
    /\ call.op = "on_message"
    /\ call.message.head = "40"
    /\ ws_sent = Handshake("E1")
    /\ pending_listening_devices = {}
    /\ is_websocket_connected

\* C5 (as claimed): with the routed transport disconnected, switch_off makes
\* no send call, returns, and leaves the entry at {off, 0}.
RoutedTransportUp(mac_id) ==
    IF BrokerRouted(mac_id) THEN mqtt_sock = "up" ELSE ws_sock = "open"

C5_DropOnDisconnect ==
    (call.op = "switch_off" /\ ~RoutedTransportUp(call.mac_id))
        => /\ ws_sent = <<>>
           /\ mqtt_sent = <<>>
           /\ raised = ""
           /\ fetch_device_state(mac_id_wise_state, call.mac_id, call.pin_number)
                  = [state |-> 0, speed |-> 0]

\* C6 (as claimed): after switch_on(E, ch, speed V) has returned, the entry
\* is {on, V}.
C6_RoundTrip ==
    (call.op = "switch_on" /\ call.speed # PyNone /\ raised = "")
        => fetch_device_state(mac_id_wise_state, call.mac_id, call.pin_number)
               = [state |-> 1, speed |-> call.speed.i]

\* C7: every command call hands its payload to exactly one transport: one
\* publish to "E/execute" if E is broker-routed, else one event_push frame.
IsCommandOf(payload, c) ==
    /\ payload.command = "execute"
    /\ payload.macID = c.mac_id
    /\ Len(payload.params) = 1
    /\ payload.params[1].pin = c.pin_number

C8_LegacyPins ==
    Merged(call)
        => \A i \in 1..Len(MergedBody(call).pin) :
               MergedBody(call).pin[i].t # "dict"
                   => percentage(mac_id_wise_state, MergedBody(call).uid, StrOfInt(i))
                          = [value |-> 0, raised |-> ""]

\* C9: a status body delivered by the broker leaves the table the stream
\* would leave for the same body as a ["status", body] frame, and the other
\* way round.
StatusFrame(body) == [head |-> "42", name |-> "status", body |-> body]

C9_TransportIsolation ==
    [][/\ call'.op = "mqtt_on_message"
          => mac_id_wise_state'
                 = on_message(View, StatusFrame(call'.decoded_message), <<>>).st
       /\ (/\ call'.op = "on_message"
           /\ call'.message.head = "42"
           /\ call'.message.name = "status")
          => mac_id_wise_state'
                 = mqtt_on_message(mac_id_wise_state, call'.message.body)]_vars

\* C9 witness: the broker has delivered a two-pin status body for E1, which
\* the table now shows.
C9_Witness ==
    /\ call.op = "mqtt_on_message"
    /\ call.decoded_message.command = "status"
    /\ call.decoded_message.uid = "E1"
    /\ call.decoded_message.pin = <<PyD(PyI(1), PyI(40)), PyI(0)>>
    /\ mac_id_wise_state["E1"]["1"] = [state |-> 1, speed |-> 40]
    /\ mac_id_wise_state["E1"]["2"].state = 0

\* C10 (as claimed): a second listen_to_tcp_device_status(E) leaves the state
\* table as it was: the channel states of E reported since the first call
\* are preserved.
C10_SubscribeIdempotent ==
    [][(call'.op = "listen_to_tcp_device_status" /\ call'.mac_id \in listened)
          => mac_id_wise_state' = mac_id_wise_state]_vars

\* The payloads the handler that has just run gave to the transport routed
\* for mac_id.
RoutedPayloads(mac_id) ==
    IF BrokerRouted(mac_id)
    THEN {mqtt_sent[i].payload : i \in DOMAIN mqtt_sent}
    ELSE {ws_sent[i].payload : i \in DOMAIN ws_sent}

ApiPinLists(uid) == SeqsUpTo({PyI(0), PyS("1")}, PinCount(uid)) \ {<<>>}

ApiStatusBodies ==
    UNION {[command : {"status"}, uid : {uid}, pin : ApiPinLists(uid)] : uid \in Endpoints}

\* BuildTrackDeviceStateManager.is_device_on: [value, raised]; a mac_id the
\* table does not hold is a KeyError.
StateManager_is_device_on(st, mac_id, pin_number) ==
    IF mac_id \notin DOMAIN st
    THEN [value |-> FALSE, raised |-> "KeyError"]
    ELSE [value |-> ~ (\/ pin_number \notin DOMAIN st[mac_id]
                       \/ st[mac_id][pin_number] = 0),
          raised |-> ""]

\* A manual_device_state_update that writes only pins the table holds; C12
\* must tell it apart.
StateManager_manual_device_state_update_KnownPins(st, mac_id, pin_number, state) ==
    IF mac_id \in DOMAIN st /\ pin_number \in DOMAIN st[mac_id]
    THEN Put(st, mac_id, Put(st[mac_id], pin_number, IF state THEN 1 ELSE 0))
    ELSE st

\* BuildTrackDeviceStateManager.manual_device_state_update.
StateManager_manual_device_state_update(st, mac_id, pin_number, state) ==
    IF mac_id \in DOMAIN st
    THEN Put(st, mac_id, Put(st[mac_id], pin_number, IF state THEN 1 ELSE 0))
    ELSE st

\* The enumerate loop of BuildTrackDeviceStateManager.update_switch_state.
RECURSIVE StateManager_StorePins(_, _, _)
StateManager_StorePins(chans, pin, i) ==
    IF i > Len(pin) THEN chans
    ELSE StateManager_StorePins(Put(chans, StrOfInt(i), PyInt(pin[i])), pin, i + 1)

\* BuildTrackDeviceStateManager.update_switch_state.
StateManager_update_switch_state(st, decoded_message) ==
    IF decoded_message.command = "status"
    THEN LET uid == decoded_message.uid
             st1 == IF uid \notin DOMAIN st THEN Put(st, uid, EmptyDict) ELSE st
         IN  Put(st1, uid, StateManager_StorePins(st1[uid], decoded_message.pin, 1))
    ELSE st

\* BuildTrackDeviceStateManager.listen_to_device_status on [st, ws, raised]:
\* the entry is reset, then the three sends; the first send on a socket that
\* is not open raises.
StateManager_listen_to_device_status(r, mac_id, sock) ==
    IF r.raised # "" THEN r
    ELSE LET st1 == Put(r.st, mac_id, EmptyDict)
         IN  IF sock = "open"
             THEN [st |-> st1, ws |-> r.ws \o Handshake(mac_id), raised |-> ""]
             ELSE [st |-> st1, ws |-> Append(r.ws, JoinGroup(mac_id)),
                   raised |-> "WebSocketConnectionClosedException"]

\* BuildTrackDeviceStateManager.register_all_devices_listeners.
RECURSIVE StateManager_register_all_devices_listeners(_, _, _)
StateManager_register_all_devices_listeners(r, order, sock) ==
    IF order = <<>> THEN r
    ELSE StateManager_register_all_devices_listeners(
             StateManager_listen_to_device_status(r, Head(order), sock),
             Tail(order), sock)

\* BuildTrackAPI.switch_on / switch_off: a connection of its own (reachable
\* says whether create_connection succeeds), login, the command, close, then
\* the optimistic write.
API_switch(st, mac_id, pin_number, on, reachable) ==
    IF reachable
    THEN [st |-> StateManager_manual_device_state_update(st, mac_id, pin_number, on),
          ws |-> <<Login,
                   EventPush([macID |-> mac_id, event |-> "execute",
                              command |-> "execute",
                              params |-> <<[pin |-> pin_number,
                                            state |-> IF on THEN "on" ELSE "off"]>>,
                              passcode |-> mac_id, to |-> mac_id])>>,
          raised |-> ""]
    ELSE [st |-> st, ws |-> <<>>, raised |-> "ConnectionError"]

\* BuildTrackAPI.toggle_device.
API_toggle_device(st, mac_id, pin_number, reachable) ==
    LET on == StateManager_is_device_on(st, mac_id, pin_number)
    IN  IF on.raised # ""
        THEN [st |-> st, ws |-> <<>>, raised |-> on.raised]
        ELSE API_switch(st, mac_id, pin_number, ~on.value, reachable)

\* One handler of the first API: r = [st, ws, raised].
ApiStep(r, sock, op, value) ==
    /\ call = Idle
    /\ mac_id_wise_state' = r.st
    /\ ws_sent' = r.ws
    /\ raised' = r.raised
    /\ ws_sock' = sock
    /\ call' = op
    /\ ret' = value
    /\ mqtt_sent' = <<>>
    /\ http_sent' = <<>>
    /\ UNCHANGED <<is_websocket_connected, is_mqtt_connected,
                   pending_listening_devices, device_mqtt_mac_ids, mqtt_sock,
                   listened>>

ApiView == [st |-> mac_id_wise_state, ws |-> <<>>, raised |-> ""]

API_ListenDeviceState(mac_id) ==
    ApiStep(StateManager_listen_to_device_status(ApiView, mac_id, ws_sock), ws_sock,
            [op |-> "listen_device_state", mac_id |-> mac_id], PyNone)

API_SwitchOn(mac_id, pin_number, reachable) ==
    ApiStep(API_switch(mac_id_wise_state, mac_id, pin_number, TRUE, reachable),
            ws_sock,
            [op |-> "api_switch_on", mac_id |-> mac_id, pin_number |-> pin_number],
            PyNone)

API_SwitchOff(mac_id, pin_number, reachable) ==
    ApiStep(API_switch(mac_id_wise_state, mac_id, pin_number, FALSE, reachable),
            ws_sock,
            [op |-> "api_switch_off", mac_id |-> mac_id, pin_number |-> pin_number],
            PyNone)

API_ToggleDevice(mac_id, pin_number, reachable) ==
    ApiStep(API_toggle_device(mac_id_wise_state, mac_id, pin_number, reachable),
            ws_sock,
            [op |-> "toggle_device", mac_id |-> mac_id, pin_number |-> pin_number],
            PyNone)

API_IsDeviceOn(mac_id, pin_number) ==
    LET on == StateManager_is_device_on(mac_id_wise_state, mac_id, pin_number)
    IN  ApiStep([ApiView EXCEPT !.raised = on.raised], ws_sock,
                [op |-> "api_is_device_on", mac_id |-> mac_id,
                 pin_number |-> pin_number],
                on.value)

\* The connection attempt succeeds: on_open sends the login frame and
\* registers every endpoint of the table again.
StateManager_OnOpen ==
    /\ ws_sock = "connecting"
    /\ \E order \in Orders(DOMAIN mac_id_wise_state) :
           ApiStep(StateManager_register_all_devices_listeners(
                       [ApiView EXCEPT !.ws = <<Login>>], order, "open"),
                   "open", [op |-> "on_open"], PyNone)

\* The socket is lost or the attempt fails: on_close connects again.
StateManager_OnClose ==
    /\ ApiStep(ApiView, "connecting", [op |-> "on_close", was |-> ws_sock], PyNone)

\* A status frame arrives on the open socket.
StateManager_OnMessage(decoded_message) ==
    /\ ws_sock = "open"
    /\ ApiStep([ApiView EXCEPT
                    !.st = StateManager_update_switch_state(@, decoded_message)],
               ws_sock,
               [op |-> "on_message", message |-> StatusFrame(decoded_message)],
               PyNone)

NextApi ==
    \/ \E mac_id \in Endpoints : API_ListenDeviceState(mac_id)
    \/ \E mac_id \in Endpoints, reachable \in BOOLEAN :
           \E pin_number \in PinNumbers(mac_id) :
               API_SwitchOn(mac_id, pin_number, reachable)
    \/ \E mac_id \in Endpoints, reachable \in BOOLEAN :
           \E pin_number \in PinNumbers(mac_id) :
               API_SwitchOff(mac_id, pin_number, reachable)
    \/ \E mac_id \in Endpoints, reachable \in BOOLEAN :
           \E pin_number \in PinNumbers(mac_id) :
               API_ToggleDevice(mac_id, pin_number, reachable)
    \/ \E mac_id \in Endpoints : \E pin_number \in PinNumbers(mac_id) :
           API_IsDeviceOn(mac_id, pin_number)
    \/ StateManager_OnOpen
    \/ StateManager_OnClose
    \/ \E decoded_message \in ApiStatusBodies : StateManager_OnMessage(decoded_message)
    \/ HandlerDone

SpecApi == Init /\ [][NextApi]_vars

\* C12: a toggle_device that returns negates what is_device_on reads for its
\* channel, and from every reachable table two toggles in a row bring the
\* reading back.
C12_Toggle ==
    [][/\ (call'.op = "toggle_device" /\ raised' = "")
          => StateManager_is_device_on(mac_id_wise_state', call'.mac_id,
                                       call'.pin_number).value
                 = ~StateManager_is_device_on(mac_id_wise_state, call'.mac_id,
                                              call'.pin_number).value
       /\ \A mac_id \in Endpoints : \A pin_number \in PinNumbers(mac_id) :
              LET once  == API_toggle_device(mac_id_wise_state, mac_id, pin_number, TRUE)
                  twice == API_toggle_device(once.st, mac_id, pin_number, TRUE)
              IN  (once.raised = "" /\ twice.raised = "")
                      => StateManager_is_device_on(twice.st, mac_id, pin_number)
                             = StateManager_is_device_on(mac_id_wise_state, mac_id,
                                                         pin_number)]_vars

\* C12 witness: toggle_device has returned for a channel the table did not
\* hold yet (it read as off) and the channel now reads as on.
C12_Witness ==
    /\ call.op = "toggle_device"
    /\ raised = ""
    /\ ws_sent # <<>>
    /\ call.mac_id = "E1"
    /\ call.pin_number = "2"
    /\ DOMAIN mac_id_wise_state["E1"] = {"2"}
    /\ mac_id_wise_state["E1"]["2"] = 1

\* The power a command writes optimistically.
CommandedState(c) == IF c.op = "switch_on" THEN 1 ELSE 0

\* C13 (as claimed): a command for a pair without an entry is still sent,
\* and the table then holds an entry for the pair with the commanded state.
C13_UnknownPairWrite ==
    [][(/\ call'.op \in Commands
        /\ ~HasEntry(mac_id_wise_state, call'.mac_id, call'.pin_number))
          => /\ ws_sent' # <<>> \/ mqtt_sent' # <<>>
             /\ HasEntry(mac_id_wise_state', call'.mac_id, call'.pin_number)
             /\ mac_id_wise_state'[call'.mac_id][call'.pin_number].state
                    = CommandedState(call')]_vars

PublicOperations ==
    Commands \cup {"listen_to_tcp_device_status", "fetch_device_state", "is_device_on"}

\* C14 (as claimed): no public operation raises to its caller, in any
\* reachable state.
C14_NeverFail ==
    call.op \in PublicOperations => raised = ""

\* ------------------------------------------------ malformed inbound messages
\* What the two on_message callbacks do with messages that are not
\* well-formed status messages.  A decoded body is a record holding only the
\* keys the JSON object has; a message that json.loads rejects is [text].

PyNull == [t |-> "null"]

\* The exception the dict literal or int(item) of update_switch_state raises
\* for a pin element, "" if none.
ItemRaises(item) ==
    IF item.t = "null" THEN "TypeError"
    ELSE IF item.t = "dict" /\ "speed" \notin DOMAIN item THEN "KeyError"
    ELSE ""

\* The enumerate loop of update_switch_state, stopping where an element
\* raises: [chans, raised].
RECURSIVE StorePinsChecked(_, _, _)
StorePinsChecked(chans, pin, i) ==
    IF i > Len(pin) THEN [chans |-> chans, raised |-> ""]
    ELSE IF ItemRaises(pin[i]) # ""
         THEN [chans |-> chans, raised |-> ItemRaises(pin[i])]
         ELSE StorePinsChecked(Put(chans, StrOfInt(i), PinEntry(pin[i])), pin, i + 1)

\* update_switch_state on any decoded body: [st, raised].
update_switch_state_checked(st, decoded_message) ==
    IF "command" \notin DOMAIN decoded_message
    THEN [st |-> st, raised |-> "KeyError"]
    ELSE IF decoded_message.command # "status"
    THEN [st |-> st, raised |-> ""]
    ELSE IF "uid" \notin DOMAIN decoded_message
    THEN [st |-> st, raised |-> "KeyError"]
    ELSE LET uid == decoded_message.uid
             st1 == IF uid \notin DOMAIN st THEN Put(st, uid, EmptyDict) ELSE st
         IN  IF "pin" \notin DOMAIN decoded_message
             THEN [st |-> st1, raised |-> "KeyError"]
             ELSE LET r == StorePinsChecked(st1[uid], decoded_message.pin, 1)
                  IN  [st |-> Put(st1, uid, r.chans), raised |-> r.raised]

\* The stream's on_message on a "42" frame: [st, raised].
on_message_checked(st, message) ==
    IF "text" \in DOMAIN message
    THEN [st |-> st, raised |-> "JSONDecodeError"]
    ELSE IF message.name = "status"
         THEN update_switch_state_checked(st, message.body)
         ELSE [st |-> st, raised |-> ""]

\* The broker's on_message on any payload: [st, raised].
mqtt_on_message_checked(st, payload) ==
    IF "text" \in DOMAIN payload
    THEN [st |-> st, raised |-> "JSONDecodeError"]
    ELSE update_switch_state_checked(st, payload)

\* Bodies that are not well-formed status messages.
MalformedBodies ==
    {[uid |-> "E1", pin |-> <<PyI(0)>>],
     [command |-> "status", pin |-> <<PyI(0)>>],
     [command |-> "status", uid |-> "E1"],
     [command |-> "status", uid |-> "E2"],
     [command |-> "status", uid |-> "E1", pin |-> <<PyNull>>],
     [command |-> "status", uid |-> "E1", pin |-> <<PyD(PyI(1), PyI(40)), PyNull>>],
     [command |-> "status", uid |-> "E1",
      pin |-> <<PyI(0), [t |-> "dict", state |-> PyI(1)]>>]}

MalformedPayloads == {[text |-> "not json"]} \cup MalformedBodies

MalformedFrames ==
    {[head |-> "42", text |-> "not json"]}
    \cup {[head |-> "42", name |-> name, body |-> body] :
              name \in {"status", "connectivityStatus"}, body \in MalformedBodies}

\* A malformed frame arrives on the open socket.
OnMessageMalformed(message) ==
    LET r == on_message_checked(mac_id_wise_state, message)
    IN  /\ call = Idle
        /\ ws_sock = "open"
        /\ mac_id_wise_state' = r.st
        /\ raised' = r.raised
        /\ call' = [op |-> "on_message", message |-> message]
        /\ ws_sent' = <<>>
        /\ mqtt_sent' = <<>>
        /\ http_sent' = <<>>
        /\ ret' = PyNone
        /\ UNCHANGED <<pending_listening_devices, device_mqtt_mac_ids, conn_vars,
                       listened>>

\* A malformed publish arrives from the broker.
MqttOnMessageMalformed(payload) ==
    LET r == mqtt_on_message_checked(mac_id_wise_state, payload)
    IN  /\ call = Idle
        /\ mqtt_sock = "up"
        /\ mac_id_wise_state' = r.st
        /\ raised' = r.raised
        /\ call' = [op |-> "mqtt_on_message", payload |-> payload]
        /\ ws_sent' = <<>>
        /\ mqtt_sent' = <<>>
        /\ http_sent' = <<>>
        /\ ret' = PyNone
        /\ UNCHANGED <<pending_listening_devices, device_mqtt_mac_ids, conn_vars,
                       listened>>

\* The two receive loops with their connections, fed well-formed and
\* malformed messages.
NextInbound ==
    \/ \E mac_id \in Endpoints : ListenToTcpDeviceStatus(mac_id)
    \/ OnOpen
    \/ WsLost
    \/ OnClose
    \/ \E message \in WsFrames : OnMessage(message)
    \/ \E message \in MalformedFrames : OnMessageMalformed(message)
    \/ \E rc \in {0, 5} : OnConnect(rc)
    \/ OnDisconnect
    \/ \E decoded_message \in StatusBodies : MqttOnMessage(decoded_message)
    \/ \E payload \in MalformedPayloads : MqttOnMessageMalformed(payload)
    \/ HandlerDone

SpecInbound == Init /\ [][NextInbound]_vars

\* The message the handler received is not a well-formed status message.
MalformedCall(c) ==
    \/ c.op = "mqtt_on_message" /\ "payload" \in DOMAIN c
    \/ /\ c.op = "on_message"
       /\ c.message \in MalformedFrames

\* C15 (as claimed): a handler given a malformed message leaves the state
\* table as it was and does not raise.
C15_MalformedIgnored ==
    [][MalformedCall(call')
          => /\ mac_id_wise_state' = mac_id_wise_state
             /\ raised' = ""]_vars

\* ------------------------------------------------- fast path, any caller
\* The command methods are plain (non-async) methods; asyncio.create_task
\* needs a running event loop in the calling thread and raises RuntimeError
\* without one.  running_loop says whether the caller has one.

\* call_local_http_api: [http, raised].
call_local_http_api_from(mac_id, pin_number, state, speed, node_local_ip, running_loop) ==
    IF node_local_ip = PyNone \/ running_loop
    THEN [http |-> call_local_http_api(mac_id, pin_number, state, speed, node_local_ip),
          raised |-> ""]
    ELSE [http |-> <<>>, raised |-> "RuntimeError"]

\* Command steps that make the optimistic write before the send; C30 must
\* tell them apart.
CommandStepsFrom_WriteFirst(mac_id, pin_number, command_json, fast, state) ==
    LET upd  == IF fast.raised = ""
                THEN manual_device_state_update(mac_id_wise_state, mac_id,
                                                pin_number, state)
                ELSE [st |-> mac_id_wise_state, raised |-> fast.raised]
        sent == IF upd.raised = ""
                THEN _send_command(mac_id, command_json)
                ELSE [ws |-> <<>>, mqtt |-> <<>>, raised |-> upd.raised]
    IN  /\ call = Idle
        /\ http_sent' = fast.http
        /\ ws_sent' = sent.ws
        /\ mqtt_sent' = sent.mqtt
        /\ mac_id_wise_state' = upd.st
        /\ raised' = sent.raised
        /\ ret' = PyNone
        /\ UNCHANGED <<pending_listening_devices, device_mqtt_mac_ids, conn_vars,
                       listened>>

\* The steps of a command method after building the command, the fast path
\* having ended as fast = [http, raised].
CommandStepsFrom(mac_id, pin_number, command_json, fast, state) ==
    LET sent == IF fast.raised = ""
                THEN _send_command(mac_id, command_json)
                ELSE [ws |-> <<>>, mqtt |-> <<>>, raised |-> fast.raised]
        upd  == IF sent.raised = ""
                THEN manual_device_state_update(mac_id_wise_state, mac_id,
                                                pin_number, state)
                ELSE [st |-> mac_id_wise_state, raised |-> sent.raised]
    IN  /\ call = Idle
        /\ http_sent' = fast.http
        /\ ws_sent' = sent.ws
        /\ mqtt_sent' = sent.mqtt
        /\ mac_id_wise_state' = upd.st
        /\ raised' = upd.raised
        /\ ret' = PyNone
        /\ UNCHANGED <<pending_listening_devices, device_mqtt_mac_ids, conn_vars,
                       listened>>

SwitchOnFrom(mac_id, pin_number, speed, node_local_ip, running_loop) ==
    /\ CommandStepsFrom(mac_id, pin_number,
                        _build_command(mac_id, pin_number, "on", speed),
                        call_local_http_api_from(mac_id, pin_number, "on", speed,
                                                 node_local_ip, running_loop),
                        TRUE)
    /\ call' = [op |-> "switch_on", mac_id |-> mac_id,
                pin_number |-> pin_number, speed |-> speed]

SwitchOffFrom(mac_id, pin_number, speed, node_local_ip, running_loop) ==
    /\ CommandStepsFrom(mac_id, pin_number,
                        _build_command(mac_id, pin_number, "off", speed),
                        call_local_http_api_from(mac_id, pin_number, "off", speed,
                                                 node_local_ip, running_loop),
                        FALSE)
    /\ call' = [op |-> "switch_off", mac_id |-> mac_id,
                pin_number |-> pin_number, speed |-> speed]

SetCoverStateFrom(mac_id, pin_number, state, node_local_ip, running_loop) ==
    /\ CommandStepsFrom(mac_id, pin_number,
                        _build_command(mac_id, pin_number, state, PyI(0)),
                        call_local_http_api_from(mac_id, pin_number, state, PyI(0),
                                                 node_local_ip, running_loop),
                        FALSE)
    /\ call' = [op |-> "set_cover_state", mac_id |-> mac_id,
                pin_number |-> pin_number, state |-> state]

NextFastPath ==
    \/ \E mac_id \in Endpoints : ListenToTcpDeviceStatus(mac_id)
    \/ \E mac_id \in Endpoints, speed \in CommandSpeeds, running_loop \in BOOLEAN :
           \E pin_number \in PinNumbers(mac_id), ip \in LocalIps(mac_id) :
               SwitchOnFrom(mac_id, pin_number, speed, ip, running_loop)
    \/ \E mac_id \in Endpoints, running_loop \in BOOLEAN :
           \E pin_number \in PinNumbers(mac_id), ip \in LocalIps(mac_id) :
               SwitchOffFrom(mac_id, pin_number, PyNone, ip, running_loop)
    \/ \E mac_id \in Endpoints, state \in CoverActions, running_loop \in BOOLEAN :
           \E pin_number \in PinNumbers(mac_id), ip \in LocalIps(mac_id) :
               SetCoverStateFrom(mac_id, pin_number, state, ip, running_loop)
    \/ \E mac_id \in BrokerCapable : RegisterMqttDevice(mac_id)
    \/ OnOpen
    \/ WsLost
    \/ OnClose
    \/ \E message \in WsFrames : OnMessage(message)
    \/ \E rc \in {0, 5} : OnConnect(rc)
    \/ OnDisconnect
    \/ \E decoded_message \in StatusBodies : MqttOnMessage(decoded_message)
    \/ HandlerDone

SpecFastPath == Init /\ [][NextFastPath]_vars

\* The command JSON a command call builds.
CommandJson(c) ==
    IF c.op = "set_cover_state"
    THEN _build_command(c.mac_id, c.pin_number, c.state, PyI(0))
    ELSE _build_command(c.mac_id, c.pin_number,
                        IF c.op = "switch_on" THEN "on" ELSE "off", c.speed)

\* C16 (as claimed): whatever the fast path did, the command's send on the
\* routed transport and its optimistic write are those of the same command
\* without a fast path.
C16_FastPathIndependence ==
    [][call'.op \in Commands
          => LET sent == _send_command(call'.mac_id, CommandJson(call'))
                 upd  == IF sent.raised = ""
                         THEN manual_device_state_update(
                                  mac_id_wise_state, call'.mac_id,
                                  call'.pin_number, call'.op = "switch_on")
                         ELSE [st |-> mac_id_wise_state, raised |-> sent.raised]
             IN  /\ ws_sent' = sent.ws
                 /\ mqtt_sent' = sent.mqtt
                 /\ mac_id_wise_state' = upd.st]_vars

\* ------------------------------------------------------ connection recovery
\* connect_to_buildtrack_mqtt_server, called once from __init__: when
\* mqtt_client.connect(...) raises (host unreachable, handshake refused) the
\* except branch logs and clears the flag; the loop_forever thread, which is
\* what reconnects, is started only after a connect that did not raise.
connect_to_buildtrack_mqtt_server(connect_ok) ==
    [connected |-> FALSE, sock |-> IF connect_ok THEN "connecting" ELSE "failed"]

\* The state after construction, the broker's first attempt having gone
\* either way.
InitRecovery ==
    \E connect_ok \in BOOLEAN :
        LET b == connect_to_buildtrack_mqtt_server(connect_ok)
        IN  /\ mac_id_wise_state = EmptyDict
            /\ is_websocket_connected = FALSE
            /\ is_mqtt_connected = b.connected
            /\ pending_listening_devices = {}
            /\ device_mqtt_mac_ids = <<>>
            /\ ws_sock = "connecting"
            /\ mqtt_sock = b.sock
            /\ call = Idle
            /\ ws_sent = <<>>
            /\ mqtt_sent = <<>>
            /\ http_sent = <<>>
            /\ raised = ""
            /\ ret = PyNone
            /\ listened = {}

NextRecovery ==
    \/ \E mac_id \in Endpoints : ListenToTcpDeviceStatus(mac_id)
    \/ \E mac_id \in BrokerCapable : RegisterMqttDevice(mac_id)
    \/ \E mac_id \in BrokerCapable : MqttSubscribeToDeviceState(mac_id)
    \/ OnOpen
    \/ WsLost
    \/ OnClose
    \/ \E message \in {f \in WsFrames : f.head = "40"} : OnMessage(message)
    \/ \E rc \in {0, 5} : OnConnect(rc)
    \/ OnDisconnect
    \/ HandlerDone

\* Every handler returns, and a run_forever thread whose socket has ended
\* gets to call on_close.
SpecRecovery ==
    InitRecovery /\ [][NextRecovery]_vars
                 /\ WF_vars(HandlerDone) /\ SF_vars(OnClose)

\* C17 (as claimed): after a failed first attempt or a dropped connection,
\* each transport eventually makes a new connection attempt.
C17_AutomaticRecovery ==
    /\ (ws_sock = "lost") ~> (ws_sock = "connecting")
    /\ (mqtt_sock = "failed") ~> (mqtt_sock = "connecting")

\* ------------------------------------------------------ concurrent threads
\* No lock guards mac_id_wise_state.  update_switch_state runs on the stream
\* thread as a loop of single dict stores; a foreground caller can run between
\* two of them.  call holds the merge in progress: its body and the index of
\* the next element of decoded_message["pin"].

\* Where the loop stands with element i next.
MergePosition(decoded_message, i) ==
    IF decoded_message.command = "status" /\ i <= Len(decoded_message.pin)
    THEN [op |-> "update_switch_state", decoded_message |-> decoded_message,
          index |-> i]
    ELSE [op |-> "update_switch_state_done", decoded_message |-> decoded_message]

\* on_message hands a "status" body to update_switch_state, which creates the
\* endpoint's entry when it has none and enters the loop.
UpdateSwitchStateBegin(decoded_message) ==
    /\ ws_sock = "open"
    /\ StreamStep([View EXCEPT !.st =
                       IF decoded_message.command = "status"
                          /\ decoded_message.uid \notin DOMAIN @
                       THEN Put(@, decoded_message.uid, EmptyDict) ELSE @],
                  MergePosition(decoded_message, 1))

\* One pass of the loop body: self.mac_id_wise_state[uid][f"{index + 1}"] = ...
\* on whatever dict the table holds for uid now.
UpdateSwitchStatePin ==
    /\ call.op = "update_switch_state"
    /\ LET uid == call.decoded_message.uid
           i   == call.index
       IN  /\ uid \in DOMAIN mac_id_wise_state
           /\ mac_id_wise_state' =
                  Put(mac_id_wise_state, uid,
                      Put(mac_id_wise_state[uid], StrOfInt(i),
                          PinEntry(call.decoded_message.pin[i])))
           /\ call' = MergePosition(call.decoded_message, i + 1)
    /\ UNCHANGED <<pending_listening_devices, device_mqtt_mac_ids, conn_vars,
                   ws_sent, mqtt_sent, http_sent, raised, ret, listened>>

\* The foreground caller subscribes while the stream thread is inside the loop.
ListenWhileMerging(mac_id) ==
    /\ call.op = "update_switch_state"
    /\ Commit(listen_to_tcp_device_status(View, mac_id))
    /\ UNCHANGED <<call, is_mqtt_connected, device_mqtt_mac_ids, mqtt_sock,
                   mqtt_sent, http_sent, raised, ret, listened>>

NextConcurrent ==
    \/ \E mac_id \in Endpoints : ListenToTcpDeviceStatus(mac_id)
    \/ \E mac_id \in Endpoints : ListenWhileMerging(mac_id)
    \/ OnOpen
    \/ WsLost
    \/ OnClose
    \/ \E message \in {f \in WsFrames : f.head = "40"} : OnMessage(message)
    \/ \E decoded_message \in StatusBodies : UpdateSwitchStateBegin(decoded_message)
    \/ UpdateSwitchStatePin
    \/ HandlerDone

SpecConcurrent == Init /\ [][NextConcurrent]_vars

\* C18 (as claimed): a status event, once fully processed, has all its pins
\* in the table, whatever ran concurrently.
C18_GuardedTable ==
    (call.op = "update_switch_state_done" /\ call.decoded_message.command = "status")
        => /\ call.decoded_message.uid \in DOMAIN mac_id_wise_state
           /\ \A i \in 1..Len(call.decoded_message.pin) :
                  StrOfInt(i) \in DOMAIN mac_id_wise_state[call.decoded_message.uid]

\* ------------------------------------------------------- claims C19, C20

\* The power a pin element reports.
ReportedState(item) == PinEntry(item).state

\* The operations that store into the table or replace an endpoint's entry.
TableWriters ==
    Commands \cup {"on_message", "mqtt_on_message", "on_open",
                   "listen_to_tcp_device_status"}

\* C19: the power read for a pair is that of the write that completed last.
\* A status event sets every channel it covers to the power it reports,
\* whatever a command or an earlier event had written; a command that returns
\* for a pair a status event has given an entry sets the commanded power; and
\* no step other than a write or a subscribe changes the table.
C19_LastWriteWins ==
    [][/\ Merged(call')
          => \A i \in 1..Len(MergedBody(call').pin) :
                 fetch_device_state(mac_id_wise_state', MergedBody(call').uid,
                                    StrOfInt(i)).state
                     = ReportedState(MergedBody(call').pin[i])
       /\ (/\ call'.op \in Commands
           /\ raised' = ""
           /\ HasEntry(mac_id_wise_state, call'.mac_id, call'.pin_number))
          => fetch_device_state(mac_id_wise_state', call'.mac_id,
                                call'.pin_number).state = CommandedState(call')
       /\ call'.op \notin TableWriters
          => mac_id_wise_state' = mac_id_wise_state]_vars

\* C19 witness: switch_off has returned for a channel whose entry a status
\* event had written as on at speed 40; the entry now reads off, and the
\* speed the event reported is still there.
C19_Witness ==
    /\ call.op = "switch_off"
    /\ raised = ""
    /\ HasEntry(mac_id_wise_state, call.mac_id, call.pin_number)
    /\ mac_id_wise_state[call.mac_id][call.pin_number] = [state |-> 0, speed |-> 40]
    /\ fetch_device_state(mac_id_wise_state, call.mac_id, call.pin_number).state = 0

\* C20: fetch_device_state and is_device_on change neither the table, the
\* pending set, the connected flags nor the routing list, and send nothing.
C20_PureReads ==
    [][call'.op \in {"fetch_device_state", "is_device_on"}
          => /\ mac_id_wise_state' = mac_id_wise_state
             /\ pending_listening_devices' = pending_listening_devices
             /\ is_websocket_connected' = is_websocket_connected
             /\ is_mqtt_connected' = is_mqtt_connected
             /\ device_mqtt_mac_ids' = device_mqtt_mac_ids
             /\ ws_sent' = <<>>
             /\ mqtt_sent' = <<>>
             /\ http_sent' = <<>>]_vars

\* C20 witness: a read of a pair of an endpoint that has no entry has
\* returned while both transports were up, and the endpoint still has none.
C20_Witness ==
    /\ call.op = "fetch_device_state"
    /\ call.mac_id \notin DOMAIN mac_id_wise_state
    /\ ret = [state |-> 0, speed |-> 0]
    /\ is_websocket_connected
    /\ is_mqtt_connected
    /\ device_mqtt_mac_ids # <<>>

\* ------------------------------------------------------- claims C21..C30

\* The (endpoint, channel) pairs that have an entry in the table.
Pairs(st) ==
    UNION {{<<mac_id, pin_number>> : pin_number \in DOMAIN st[mac_id]} :
               mac_id \in DOMAIN st}

\* The pairs the step that gave call its value reported or commanded.
PairsWritten(c) ==
    IF Merged(c)
    THEN {<<MergedBody(c).uid, StrOfInt(i)>> : i \in 1..Len(MergedBody(c).pin)}
    ELSE IF c.op \in Commands THEN {<<c.mac_id, c.pin_number>>}
    ELSE {}

\* C21: a step adds a channel entry only for a pair it commanded or a pair
\* its status event reported; subscribe, connect, disconnect and read steps
\* add none.  Every entry of a reachable table therefore has such a step
\* before it.
C21_Presence ==
    [][Pairs(mac_id_wise_state') \ Pairs(mac_id_wise_state) \subseteq PairsWritten(call')]_vars

\* C21 witness: a subscribe has run on the connected stream and left its
\* endpoint without a channel entry, while another endpoint has the entries a
\* status event gave it.
C21_Witness ==
    /\ call.op = "listen_to_tcp_device_status"
    /\ is_websocket_connected
    /\ ws_sent = Handshake(call.mac_id)
    /\ mac_id_wise_state[call.mac_id] = EmptyDict
    /\ Pairs(mac_id_wise_state) # {}

\* The command payloads ("execute") among the sends of the handler that has
\* just run; handshakes and status queries are not among them.
WsCommands ==
    {i \in DOMAIN ws_sent : /\ ws_sent[i].frame = "event_push"
                            /\ ws_sent[i].payload.command = "execute"}

MqttCommands ==
    {i \in DOMAIN mqtt_sent : /\ mqtt_sent[i].api = "publish"
                              /\ mqtt_sent[i].topic # <<"WillMsg">>
                              /\ mqtt_sent[i].payload.command = "execute"}

\* C22: a command call makes at most one send, of its own command, and no
\* other operation (subscribe, connection callbacks, inbound messages, reads)
\* ever sends a command: nothing is kept to be sent later.
C22_AtMostOnce ==
    IF call.op \in Commands
    THEN /\ Cardinality(WsCommands) + Cardinality(MqttCommands) <= 1
         /\ \A i \in WsCommands : IsCommandOf(ws_sent[i].payload, call)
         /\ \A i \in MqttCommands : IsCommandOf(mqtt_sent[i].payload, call)
    ELSE WsCommands = {} /\ MqttCommands = {}

\* C22 witness: the stream has connected again after status events had filled
\* the table; on_open sent the login frame and re-queued the known endpoints,
\* and no command.
C22_Witness ==
    /\ call.op = "on_open"
    /\ ws_sent = <<Login>>
    /\ pending_listening_devices # {}
    /\ Pairs(mac_id_wise_state) # {}

\* C23 (as claimed): a subscribe on a stream marked connected sends exactly
\* the three handshake frames in order; on a stream not marked connected it
\* sends nothing, adds the endpoint to the pending set and leaves the table.
C23_SubscribeStepAsClaimed ==
    [][call'.op = "listen_to_tcp_device_status"
          => IF is_websocket_connected
             THEN ws_sent' = Handshake(call'.mac_id)
             ELSE /\ ws_sent' = <<>>
                  /\ pending_listening_devices'
                         = pending_listening_devices \cup {call'.mac_id}
                  /\ mac_id_wise_state' = mac_id_wise_state]_vars

\* C23 (amended): the connected case depends on the socket.  On an open
\* socket the three frames go out in order and the pending set is left alone;
\* when the socket no longer accepts a send (dropped, on_close not yet run)
\* the send of joinGroup raises, nothing follows it, and the endpoint is added
\* to the pending set.  The case of a stream not marked connected is as
\* claimed.
C23_SubscribeStep ==
    [][call'.op = "listen_to_tcp_device_status"
          => IF ~is_websocket_connected
             THEN /\ ws_sent' = <<>>
                  /\ pending_listening_devices'
                         = pending_listening_devices \cup {call'.mac_id}
                  /\ mac_id_wise_state' = mac_id_wise_state
             ELSE IF ws_sock = "open"
             THEN /\ ws_sent' = Handshake(call'.mac_id)
                  /\ pending_listening_devices' = pending_listening_devices
             ELSE /\ ws_sent' = <<JoinGroup(call'.mac_id)>>
                  /\ pending_listening_devices'
                         = pending_listening_devices \cup {call'.mac_id}]_vars

\* C23 witness: a subscribe has run on a stream marked connected whose socket
\* was gone; its endpoint is pending, while another subscribe before it had
\* sent its handshake.
C23_Witness ==
    /\ call.op = "listen_to_tcp_device_status"
    /\ is_websocket_connected
    /\ ws_sock = "lost"
    /\ ws_sent = <<JoinGroup(call.mac_id)>>
    /\ call.mac_id \in pending_listening_devices
    /\ \E mac_id \in DOMAIN mac_id_wise_state : mac_id # call.mac_id

\* C24: a new connection replays every subscription.  on_open sends the login
\* frame only and puts every endpoint of the table into the pending set, next
\* to those already pending; until the "40" frame nothing leaves the pending
\* set; the "40" frame then sends one handshake for each pending endpoint and
\* nothing else.
C24_ConnectReplay ==
    [][/\ call'.op = "on_open"
          => /\ ws_sent' = <<Login>>
             /\ pending_listening_devices'
                    = pending_listening_devices \cup DOMAIN mac_id_wise_state
       /\ (call'.op = "on_message" /\ call'.message.head = "40")
          => /\ \A mac_id \in pending_listening_devices :
                    FramesFor(ws_sent', mac_id) = Handshake(mac_id)
             /\ Len(ws_sent') = 3 * Cardinality(pending_listening_devices)
       /\ ~(call'.op = "on_message" /\ call'.message.head = "40")
          => pending_listening_devices \subseteq pending_listening_devices']_vars

\* C24 witness: the "40" frame of a connection has sent a handshake for every
\* endpoint: one that on_open had queued from the table and one that a
\* subscribe had queued.
C24_Witness ==
    /\ call.op = "on_message"
    /\ call.message.head = "40"
    /\ Len(ws_sent) = 3 * Cardinality(Endpoints)
    /\ \A mac_id \in Endpoints : FramesFor(ws_sent, mac_id) = Handshake(mac_id)
    /\ pending_listening_devices = {}

\* --------------------------------------------- pending drain, two threads
\* The "40" branch of on_message runs on the stream thread:
\*     self.is_websocket_connected = True
\*     tmp_list = self.pending_listening_devices.copy()
\*     self.pending_listening_devices.clear()
\*     for device_mac in tmp_list: self.listen_to_tcp_device_status(device_mac)
\* while a foreground caller runs listen_to_tcp_device_status:
\*     if not self.is_websocket_connected:
\*         self.pending_listening_devices.add(mac_id)
\* Nothing orders the statements of the two threads.  call holds both
\* positions; ws_sent collects what the two have sent so far.

NoThreads ==
    [op |-> "threads", stream |-> [at |-> "idle"], fg |-> [at |-> "idle"]]

ThreadPos == IF call = Idle THEN NoThreads ELSE call

InThreads == call = Idle \/ call.op = "threads"

\* What a statement of either thread leaves alone.
ThreadFrame ==
    UNCHANGED <<is_mqtt_connected, device_mqtt_mac_ids, mqtt_sock, mqtt_sent,
                http_sent, raised, ret, listened>>

\* on_message("40"), first statement: the flag is set.
SessionOpen ==
    /\ InThreads
    /\ ThreadPos.stream.at = "idle"
    /\ ws_sock = "open"
    /\ is_websocket_connected' = TRUE
    /\ call' = [ThreadPos EXCEPT !.stream = [at |-> "copy"]]
    /\ UNCHANGED <<mac_id_wise_state, pending_listening_devices, ws_sock, ws_sent>>
    /\ ThreadFrame

\* tmp_list = self.pending_listening_devices.copy()
DrainCopy ==
    /\ InThreads
    /\ ThreadPos.stream.at = "copy"
    /\ call' = [call EXCEPT !.stream = [at |-> "clear",
                                        tmp_list |-> pending_listening_devices]]
    /\ UNCHANGED <<mac_id_wise_state, pending_listening_devices,
                   is_websocket_connected, ws_sock, ws_sent>>
    /\ ThreadFrame

\* The loop over tmp_list stands at the copies not yet re-subscribed.
DrainPosition(tmp_list) ==
    IF tmp_list = {} THEN [at |-> "done"]
    ELSE [at |-> "loop", tmp_list |-> tmp_list]

\* self.pending_listening_devices.clear()
DrainClear ==
    /\ InThreads
    /\ ThreadPos.stream.at = "clear"
    /\ pending_listening_devices' = {}
    /\ call' = [call EXCEPT !.stream = DrainPosition(call.stream.tmp_list)]
    /\ UNCHANGED <<mac_id_wise_state, is_websocket_connected, ws_sock, ws_sent>>
    /\ ThreadFrame

\* One pass of the loop: listen_to_tcp_device_status(device_mac).
DrainListen ==
    /\ InThreads
    /\ ThreadPos.stream.at = "loop"
    /\ \E device_mac \in call.stream.tmp_list :
           /\ Commit(listen_to_tcp_device_status([View EXCEPT !.ws = ws_sent],
                                                 device_mac))
           /\ call' = [call EXCEPT !.stream =
                           DrainPosition(call.stream.tmp_list \ {device_mac})]
    /\ ThreadFrame

\* The foreground caller enters listen_to_tcp_device_status and reads the
\* flag: connected, it goes on to the handshake; not connected, it is about
\* to add mac_id to the pending set.
ListenEnter(mac_id) ==
    /\ InThreads
    /\ ThreadPos.fg.at = "idle"
    /\ IF is_websocket_connected
       THEN /\ Commit(listen_to_tcp_device_status([View EXCEPT !.ws = ws_sent],
                                                  mac_id))
            /\ call' = [ThreadPos EXCEPT !.fg = [at |-> "done", mac_id |-> mac_id]]
       ELSE /\ call' = [ThreadPos EXCEPT !.fg = [at |-> "add", mac_id |-> mac_id]]
            /\ UNCHANGED <<mac_id_wise_state, pending_listening_devices,
                           is_websocket_connected, ws_sock, ws_sent>>
    /\ ThreadFrame

\* self.pending_listening_devices.add(mac_id); return
ListenAdd ==
    /\ InThreads
    /\ ThreadPos.fg.at = "add"
    /\ pending_listening_devices' = pending_listening_devices \cup {call.fg.mac_id}
    /\ call' = [call EXCEPT !.fg = [at |-> "done", mac_id |-> call.fg.mac_id]]
    /\ UNCHANGED <<mac_id_wise_state, is_websocket_connected, ws_sock, ws_sent>>
    /\ ThreadFrame

\* Both threads are out of their methods.
ThreadsDone ==
    /\ call # Idle
    /\ call.op = "threads"
    /\ call.stream.at \in {"idle", "done"}
    /\ call.fg.at \in {"idle", "done"}
    /\ HandlerDone

\* A handler that ran alone has returned.
AloneDone ==
    /\ call # Idle
    /\ call.op # "threads"
    /\ HandlerDone

\* The keepalive: the server's pong frame "3" on the open socket.
Pong == OnMessage([head |-> "3"])

StreamThreadStep == DrainCopy \/ DrainClear \/ DrainListen

NextDrain ==
    \/ OnOpen
    \/ WsLost
    \/ OnClose
    \/ Pong
    \/ SessionOpen
    \/ StreamThreadStep
    \/ \E mac_id \in Endpoints : ListenEnter(mac_id)
    \/ ListenAdd
    \/ ThreadsDone
    \/ AloneDone

\* Both threads keep running, handlers return, and an open connection keeps
\* receiving pongs (ping_interval 25).
SpecDrain ==
    Init /\ [][NextDrain]_vars
         /\ WF_vars(StreamThreadStep) /\ WF_vars(ListenAdd)
         /\ WF_vars(ThreadsDone) /\ WF_vars(AloneDone) /\ WF_vars(Pong)

\* C25 (as claimed): no endpoint stays in the pending set forever while the
\* stream is connected and stays connected.
C25_EventualSubscription ==
    \A mac_id \in Endpoints :
        []<>~(/\ is_websocket_connected
              /\ ws_sock = "open"
              /\ mac_id \in pending_listening_devices)

\* C26 (as claimed): once the drain and a concurrent subscribe for E have both
\* finished, a handshake for E has been sent on the connection or E is in the
\* pending set.
C26_DrainVersusSubscribe ==
    (/\ call # Idle
     /\ call.op = "threads"
     /\ call.stream.at = "done"
     /\ call.fg.at = "done")
        => \/ call.fg.mac_id \in pending_listening_devices
           \/ FramesFor(ws_sent, call.fg.mac_id) = Handshake(call.fg.mac_id)

\* A frame of the subscribe handshake.
IsHandshakeFrame(f) ==
    \/ f.frame \in {"joinGroup", "connectivityStatus"}
    \/ f.frame = "event_push" /\ f.payload.command = "deviceStatus"

\* C27: on_close leaves the flag cleared and a new connection under way and
\* sends nothing; only the "40" frame sets the flag again; a step that ends
\* with the flag cleared has sent no handshake frame; and a subscribe made
\* while the flag is cleared only adds its endpoint to the pending set.
C27_CloseStep ==
    [][/\ call'.op = "on_close"
          => /\ ~is_websocket_connected'
             /\ ws_sock' = "connecting"
             /\ ws_sent' = <<>>
       /\ (~is_websocket_connected /\ is_websocket_connected')
          => call'.op = "on_message" /\ call'.message.head = "40"
       /\ ~is_websocket_connected'
          => \A i \in DOMAIN ws_sent' : ~IsHandshakeFrame(ws_sent'[i])
       /\ (call'.op = "listen_to_tcp_device_status" /\ ~is_websocket_connected)
          => /\ pending_listening_devices'
                    = pending_listening_devices \cup {call'.mac_id}
             /\ mac_id_wise_state' = mac_id_wise_state
             /\ ws_sock' = ws_sock]_vars

\* C27 witness: the stream had been marked connected (a subscribe then left
\* an endpoint with an empty entry, which nothing else does) and was closed;
\* a subscribe has now run before the "40" frame of the new connection: it
\* sent nothing and its endpoint is pending.
C27_Witness ==
    /\ call.op = "listen_to_tcp_device_status"
    /\ ~is_websocket_connected
    /\ ws_sock = "open"
    /\ ws_sent = <<>>
    /\ call.mac_id \in pending_listening_devices
    /\ \E mac_id \in DOMAIN mac_id_wise_state :
           mac_id # call.mac_id /\ mac_id_wise_state[mac_id] = EmptyDict

\* The paho calls among sent whose topic is one of mac_id's.
MqttFor(sent, mac_id) ==
    SelectSeq(sent, LAMBDA x : x.topic[1] = mac_id)

\* The subscribe and the status query the broker side issues for an endpoint.
SubscribeAndQuery(mac_id) ==
    <<MqttSubscribe(mac_id),
      MqttPublish(<<mac_id, "/execute">>, DeviceStatusQuery(mac_id))>>

\* C28: after on_connect with result code 0 the broker is marked connected
\* and, for every endpoint of the broker-routed list, exactly one subscribe
\* followed by one status query has been issued, and none for any other
\* endpoint; after a non-zero result code the flag is false and nothing was
\* issued.
C28_BrokerConnectStep ==
    call.op = "on_connect"
        => IF call.rc = 0
           THEN /\ is_mqtt_connected
                /\ \A mac_id \in Endpoints :
                       MqttFor(mqtt_sent, mac_id)
                           = IF BrokerRouted(mac_id)
                             THEN SubscribeAndQuery(mac_id) ELSE <<>>
           ELSE /\ ~is_mqtt_connected
                /\ mqtt_sent = <<>>

\* C28 witness: result code 0 with E2 in the list: the will message, the
\* subscribe and the query.
C28_Witness ==
    /\ call.op = "on_connect"
    /\ call.rc = 0
    /\ device_mqtt_mac_ids = <<"E2">>
    /\ mqtt_sent = <<WillMsg>> \o SubscribeAndQuery("E2")

\* C29: mqtt_subscribe_to_device_state issues the subscribe and the query
\* when the broker is marked connected and otherwise does nothing and keeps
\* nothing; on_disconnect clears the flag; the routed list never loses an
\* endpoint, and on_connect with result code 0 subscribes every endpoint of
\* it, so one that was subscribed while disconnected is subscribed then.
C29_BrokerSubscribe ==
    [][/\ call'.op = "mqtt_subscribe_to_device_state"
          => /\ mqtt_sent' = IF is_mqtt_connected
                             THEN SubscribeAndQuery(call'.mac_id) ELSE <<>>
             /\ ws_sent' = <<>>
             /\ UNCHANGED <<mac_id_wise_state, pending_listening_devices,
                            device_mqtt_mac_ids, conn_vars>>
       /\ call'.op = "on_disconnect"
          => ~is_mqtt_connected' /\ mqtt_sent' = <<>>
       /\ \A i \in DOMAIN device_mqtt_mac_ids :
              i \in DOMAIN device_mqtt_mac_ids'
              /\ device_mqtt_mac_ids'[i] = device_mqtt_mac_ids[i]
       /\ (call'.op = "on_connect" /\ call'.rc = 0)
          => \A i \in DOMAIN device_mqtt_mac_ids :
                 \E j \in DOMAIN mqtt_sent' :
                     mqtt_sent'[j] = MqttSubscribe(device_mqtt_mac_ids[i])]_vars

\* C29 witness: a broker-routed endpoint has been subscribed while the broker
\* was not marked connected, and nothing was issued.
C29_Witness ==
    /\ call.op = "mqtt_subscribe_to_device_state"
    /\ BrokerRouted(call.mac_id)
    /\ ~is_mqtt_connected
    /\ mqtt_sock = "connecting"
    /\ mqtt_sent = <<>>

\* C30: a command runs fast path, send, write, in this order, and an exception
\* ends it where it is raised.  A fast path that could not be scheduled leaves
\* no send and no write; a send that raised leaves the table as it was; a
\* write that raised was preceded by the send; and the table changes only in
\* a call that made its send and returned.
C30_StepOrder ==
    [][call'.op \in Commands
          => LET sends == Len(ws_sent') + Len(mqtt_sent')
             IN  /\ raised' = "RuntimeError"
                       => sends = 0 /\ mac_id_wise_state' = mac_id_wise_state
                 /\ raised' = "WebSocketConnectionClosedException"
                       => sends = 1 /\ mac_id_wise_state' = mac_id_wise_state
                 /\ raised' = "KeyError"
                       => sends = 1 /\ mac_id_wise_state' = mac_id_wise_state
                 /\ mac_id_wise_state' # mac_id_wise_state
                       => sends = 1 /\ raised' = ""]_vars

\* C30 witness: switch_on for a channel that reads off has made its fast-path
\* call and then raised in the send on a stream that is not open; the entry
\* still reads off.
C30_Witness ==
    /\ call.op = "switch_on"
    /\ raised = "WebSocketConnectionClosedException"
    /\ http_sent # <<>>
    /\ ws_sent # <<>>
    /\ HasEntry(mac_id_wise_state, call.mac_id, call.pin_number)
    /\ mac_id_wise_state[call.mac_id][call.pin_number].state = 0

\* ------------------------------------------------------- claims C31..C36

\* An inbound step that carries no status event: a stream frame other than
\* "40" that is not a ["status", body] frame with command "status", or a
\* broker body whose command is not "status".
NotAStatus(c) ==
    \/ /\ c.op = "on_message"
       /\ c.message.head # "40"
       /\ ~Merged(c)
    \/ /\ c.op = "mqtt_on_message"
       /\ ~Merged(c)

\* The operations whose code stores into the table: the two merge paths, the
\* commands and the subscribe (directly, or from the "40" drain).
StoresIntoTable(c) ==
    \/ Merged(c)
    \/ c.op \in Commands
    \/ c.op = "listen_to_tcp_device_status"
    \/ c.op = "on_message" /\ c.message.head = "40"

\* C31 (as claimed): the session-open frame, like every inbound frame or body
\* that is not a status event, leaves the table unchanged.
C31_OnlyStatusChangesAsClaimed ==
    [][(NotAStatus(call') \/ (call'.op = "on_message" /\ call'.message.head = "40"))
          => mac_id_wise_state' = mac_id_wise_state]_vars

\* C31 (amended): an inbound frame or body that is not a status event and not
\* the session-open frame leaves the table unchanged; the session-open frame
\* changes it by subscribe-time entry creation only: every pending endpoint
\* gets an empty entry and no other endpoint's entry changes; and no step
\* other than a merge, a command, a subscribe or that drain changes the table.
C31_OnlyStatusChanges ==
    [][/\ NotAStatus(call') => mac_id_wise_state' = mac_id_wise_state
       /\ (call'.op = "on_message" /\ call'.message.head = "40")
          => /\ DOMAIN mac_id_wise_state'
                    = DOMAIN mac_id_wise_state \cup pending_listening_devices
             /\ \A mac_id \in DOMAIN mac_id_wise_state' :
                    mac_id_wise_state'[mac_id]
                        = IF mac_id \in pending_listening_devices THEN EmptyDict
                          ELSE mac_id_wise_state[mac_id]
       /\ ~StoresIntoTable(call') => mac_id_wise_state' = mac_id_wise_state]_vars

\* C31 witness: a "42" frame named connectivityStatus, whose body would set
\* (E1, 1) on, has been handled while (E1, 1) reads off.
C31_Witness ==
    /\ call.op = "on_message"
    /\ call.message.head = "42"
    /\ call.message.name = "connectivityStatus"
    /\ HasEntry(mac_id_wise_state, "E1", "1")
    /\ mac_id_wise_state["E1"]["1"].state = 0

\* C32: a subscribe on the stream marked connected leaves its endpoint with an
\* empty channel map, so every channel of it reads {0, 0} and not on; an
\* empty map stays empty until a status event for the endpoint is merged; and
\* a reconnect does this to every endpoint of the table: on_open queues them
\* all and the "40" frame empties every queued endpoint.
C32_SubscribeResets ==
    [][/\ (call'.op = "listen_to_tcp_device_status" /\ is_websocket_connected)
          => /\ mac_id_wise_state'[call'.mac_id] = EmptyDict
             /\ \A pin_number \in PinNumbers(call'.mac_id) :
                    /\ fetch_device_state(mac_id_wise_state', call'.mac_id, pin_number)
                           = [state |-> 0, speed |-> 0]
                    /\ ~is_device_on(mac_id_wise_state', call'.mac_id, pin_number)
       /\ call'.op = "on_open"
          => DOMAIN mac_id_wise_state \subseteq pending_listening_devices'
       /\ (call'.op = "on_message" /\ call'.message.head = "40")
          => \A mac_id \in pending_listening_devices :
                 mac_id_wise_state'[mac_id] = EmptyDict
       /\ \A mac_id \in DOMAIN mac_id_wise_state :
              (/\ mac_id_wise_state[mac_id] = EmptyDict
               /\ ~(Merged(call') /\ MergedBody(call').uid = mac_id))
                  => mac_id_wise_state'[mac_id] = EmptyDict]_vars

\* C32 witness: the "40" frame has re-subscribed E1 on a table that holds
\* reported channels of E2: E1's map is empty, E2's is not.
C32_Witness ==
    /\ call.op = "on_message"
    /\ call.message.head = "40"
    /\ ws_sent = Handshake("E1")
    /\ mac_id_wise_state["E1"] = EmptyDict
    /\ "E2" \in DOMAIN mac_id_wise_state
    /\ mac_id_wise_state["E2"] # EmptyDict

\* C33: a status event for endpoint E with n pins changes only the entries
\* (E, 1..n): every other endpoint keeps its channel map, the table gains no
\* key but E, and every channel of E beyond the reported pins that existed
\* before is still there with its value.
C33_StatusEventFrame ==
    [][Merged(call')
          => LET uid == MergedBody(call').uid
                 reported == {StrOfInt(i) : i \in 1..Len(MergedBody(call').pin)}
                 before == IF uid \in DOMAIN mac_id_wise_state
                           THEN mac_id_wise_state[uid] ELSE EmptyDict
             IN  /\ DOMAIN mac_id_wise_state' = DOMAIN mac_id_wise_state \cup {uid}
                 /\ \A mac_id \in DOMAIN mac_id_wise_state \ {uid} :
                        mac_id_wise_state'[mac_id] = mac_id_wise_state[mac_id]
                 /\ DOMAIN mac_id_wise_state'[uid] = DOMAIN before \cup reported
                 /\ \A pin_number \in DOMAIN before \ reported :
                        mac_id_wise_state'[uid][pin_number] = before[pin_number]]_vars

\* C33 witness: a one-pin status event for E1 has been merged and E1's
\* channel "2", reported earlier with a speed, is still in the table, next to
\* an entry of E2.
C33_Witness ==
    /\ Merged(call)
    /\ MergedBody(call).uid = "E1"
    /\ Len(MergedBody(call).pin) = 1
    /\ HasEntry(mac_id_wise_state, "E1", "2")
    /\ mac_id_wise_state["E1"]["2"] = [state |-> 1, speed |-> 40]
    /\ HasEntry(mac_id_wise_state, "E2", "1")

\* C34: a command changes nothing in the table but the "state" field of the
\* entry of the commanded pair: the table keeps its endpoints, every endpoint
\* its channels, every other entry its value, and the commanded entry its
\* fields and the value of each field other than "state".
C34_OptimisticWriteFrame ==
    [][call'.op \in Commands
          => /\ DOMAIN mac_id_wise_state' = DOMAIN mac_id_wise_state
             /\ \A mac_id \in DOMAIN mac_id_wise_state :
                    /\ DOMAIN mac_id_wise_state'[mac_id] = DOMAIN mac_id_wise_state[mac_id]
                    /\ \A pin_number \in DOMAIN mac_id_wise_state[mac_id] :
                           LET old == mac_id_wise_state[mac_id][pin_number]
                               new == mac_id_wise_state'[mac_id][pin_number]
                           IN  IF mac_id = call'.mac_id /\ pin_number = call'.pin_number
                               THEN /\ DOMAIN new = DOMAIN old
                                    /\ \A field \in DOMAIN old \ {"state"} :
                                           new[field] = old[field]
                               ELSE new = old]_vars

\* C34 witness: switch_on with speed 60 has returned for (E1, "1"), whose
\* entry still holds the speed 40 a status event reported, while E1's other
\* channel is off as a command left it, speed 40 still there.
C34_Witness ==
    /\ call.op = "switch_on"
    /\ call.mac_id = "E1"
    /\ call.pin_number = "1"
    /\ call.speed = PyI(60)
    /\ raised = ""
    /\ HasEntry(mac_id_wise_state, "E1", "1")
    /\ mac_id_wise_state["E1"]["1"] = [state |-> 1, speed |-> 40]
    /\ HasEntry(mac_id_wise_state, "E1", "2")
    /\ mac_id_wise_state["E1"]["2"] = [state |-> 0, speed |-> 40]

\* C35: a subscribe whose send raises on a stream marked connected returns
\* without an exception, has not completed the handshake, and leaves its
\* endpoint in the pending set; the endpoint stays pending through every step
\* but a "40" frame, and the "40" frame of the next connection sends the
\* three handshake frames of every pending endpoint.
C35_FailedHandshakeRequeued ==
    [][/\ (/\ call'.op = "listen_to_tcp_device_status"
           /\ is_websocket_connected
           /\ ws_sock # "open")
          => /\ raised' = ""
             /\ FramesFor(ws_sent', call'.mac_id) # Handshake(call'.mac_id)
             /\ call'.mac_id \in pending_listening_devices'
       /\ \A mac_id \in pending_listening_devices :
              IF call'.op = "on_message" /\ call'.message.head = "40"
              THEN /\ ws_sock' = "open"
                   /\ FramesFor(ws_sent', mac_id) = Handshake(mac_id)
              ELSE mac_id \in pending_listening_devices']_vars

\* C35 witness: the subscribe of E2 has failed on a lost socket while the
\* flag was still set; it returned normally and E2 is the one pending
\* endpoint, E1 having reported channels.
C35_Witness ==
    /\ call.op = "listen_to_tcp_device_status"
    /\ call.mac_id = "E2"
    /\ is_websocket_connected
    /\ ws_sock = "lost"
    /\ raised = ""
    /\ pending_listening_devices = {"E2"}
    /\ Len(ws_sent) < 3
    /\ HasEntry(mac_id_wise_state, "E1", "1")

\* C36: both flags are false after construction.  The stream flag rises only
\* in the "40" step of an open connection, on_close clears it, and a
\* connection that is being made or has just opened finds it cleared; the
\* broker flag rises only in on_connect with result code 0, is false after an
\* on_connect with another code and after on_disconnect; and a step that
\* sent a handshake frame on the stream ends with the stream flag set.
C36_ConnectedFlags ==
    /\ ~is_websocket_connected
    /\ ~is_mqtt_connected
    /\ [][/\ (~is_websocket_connected /\ is_websocket_connected')
             => /\ call'.op = "on_message"
                /\ call'.message.head = "40"
                /\ ws_sock' = "open"
          /\ call'.op \in {"on_close", "on_open"} => ~is_websocket_connected'
          /\ ws_sock' = "connecting" => ~is_websocket_connected'
          /\ (~is_mqtt_connected /\ is_mqtt_connected')
             => call'.op = "on_connect" /\ call'.rc = 0
          /\ call'.op = "on_connect" => (is_mqtt_connected' <=> call'.rc = 0)
          /\ call'.op = "on_disconnect" => ~is_mqtt_connected'
          /\ mqtt_sock' # "up" => ~is_mqtt_connected'
          /\ (\E i \in DOMAIN ws_sent' : IsHandshakeFrame(ws_sent'[i]))
             => is_websocket_connected']_vars

\* C36 witness: the broker has disconnected after a connection on which E2
\* had been subscribed, its flag is cleared, while the stream, whose "40"
\* frame has arrived and subscribed E1, is still marked connected.
C36_Witness ==
    /\ call.op = "on_disconnect"
    /\ ~is_mqtt_connected
    /\ device_mqtt_mac_ids # <<>>
    /\ is_websocket_connected
    /\ ws_sock = "open"
    /\ "E1" \in DOMAIN mac_id_wise_state
    /\ pending_listening_devices = {}

====
